---- MODULE Spec2Model ----
(***************************************************************************)
(* Model of the audio recording worker (audio_worker.py: Recorder, its     *)
(* capture callback and waveform pipeline) and of the client that         *)
(* supervises it (audio_worker_client.py: AudioWorkerClient).             *)
(*                                                                         *)
(* Samples are fixed-point numbers: 1000 stands for the float 1.0.        *)
(* Time is in milliseconds; the clock is kept as the time passed since     *)
(* _since_waveform, which is all the code reads of it.                 *)
(***************************************************************************)
EXTENDS Integers, Sequences, FiniteSets, TLC

\* ------------------------------------------------------------------ bounds
\* Blocks the driver delivers to the callback per opened stream.
MaxChunks == 2
\* The same in SpecWave, where the blocks are long.
MaxWaveChunks == 2
\* Recorder calls the protocol loop makes in one run.
MaxCalls == 3
\* Client calls made in one run, worker processes spawned, stray output lines.
MaxClientCalls == 2
MaxSpawns == 2
MaxNoise == 1

\* ------------------------------------------------------- program constants
WAVEFORM_BARS == 24
WAVEFORM_INTERVAL_MS == 33
PEAK_WINDOW_SIZE == 90
UNIT == 1000
INITIAL_PEAK_LEVEL == 10
PEAK_FLOOR == 5
DEFAULT_SAMPLE_RATE == 16000
INT16_SCALE == 32767

None == "None"

\* ----------------------------------------------------------------- helpers
Abs(x) == IF x < 0 THEN -x ELSE x
Min2(a, b) == IF a < b THEN a ELSE b
Max2(a, b) == IF a > b THEN a ELSE b

RECURSIVE Concat(_)
\* np.concatenate(seq_of_chunks, axis=0)
Concat(cs) == IF cs = <<>> THEN <<>> ELSE Head(cs) \o Concat(Tail(cs))

RECURSIVE SeqMax(_)
\* max() of a sequence of non-negative numbers (0 for the empty one)
SeqMax(s) == IF s = <<>> THEN 0 ELSE Max2(Head(s), SeqMax(Tail(s)))

RECURSIVE SumSq(_)
SumSq(s) == IF s = <<>> THEN 0 ELSE Head(s) * Head(s) + SumSq(Tail(s))

RECURSIVE Bisect(_, _, _)
\* the largest r in lo..hi with r * r <= x
Bisect(x, lo, hi) ==
    IF lo >= hi THEN lo
    ELSE LET mid == (lo + hi + 1) \div 2
         IN IF mid * mid <= x THEN Bisect(x, mid, hi) ELSE Bisect(x, lo, mid - 1)

\* floor of the square root of x, which is at most hi
ISqrt(x, hi) == Bisect(x, 0, hi)

AbsSeq(s) == [i \in 1..Len(s) |-> Abs(s[i])]

\* float(np.sqrt(np.mean(chunk ** 2))) of a non-empty slice of absolute values
Rms(chunk) == ISqrt(SumSq(chunk) \div Len(chunk), SeqMax(chunk))

\* the element at index r (from 0) of the non-empty sequence h sorted
Ranked(h, r) ==
    CHOOSE x \in {h[i] : i \in DOMAIN h} :
        /\ Cardinality({i \in DOMAIN h : h[i] < x}) <= r
        /\ r < Cardinality({i \in DOMAIN h : h[i] <= x})

\* np.percentile(h, 85): linear interpolation between the closest ranks
Percentile85(h) ==
    LET n == Len(h)
        pos == 85 * (n - 1)
        lo == pos \div 100
        frac == pos % 100
        hi == Min2(lo + 1, n - 1)
    IN Ranked(h, lo) + (frac * (Ranked(h, hi) - Ranked(h, lo))) \div 100

\* (audio * 32767).astype(np.int16): truncation toward zero
ToInt16(s) == IF s < 0 THEN -(((-s) * INT16_SCALE) \div UNIT) ELSE (s * INT16_SCALE) \div UNIT

\* ------------------------------------------------------ waveform pipeline
RECURSIVE BarLoop(_, _, _)
\* lines 117-128: the loop body for bars i, i + 1, ... of `for i in range(24)`
BarLoop(audio, samples_per_bar, i) ==
    IF i >= WAVEFORM_BARS THEN <<>>
    ELSE LET start == i * samples_per_bar
             end0 == start + samples_per_bar
             end == IF end0 > Len(audio) THEN Len(audio) ELSE end0
             bar == IF start < Len(audio) THEN Rms(SubSeq(audio, start + 1, end)) ELSE 0
         IN <<bar>> \o BarLoop(audio, samples_per_bar, i + 1)

\* lines 111-128: the raw bar values of the absolute samples `audio`
RawValues(audio) ==
    LET q == Len(audio) \div WAVEFORM_BARS
        samples_per_bar == IF q < 1 THEN 1 ELSE q
    IN BarLoop(audio, samples_per_bar, 0)

\* line 132 without the eviction of lines 133-134
PushHistory_NoEviction(history, current_max) == Append(history, current_max)

\* lines 131-134: the rolling window after this tick
PushHistory(history, current_max) ==
    LET h == Append(history, current_max)
    IN IF Len(h) > PEAK_WINDOW_SIZE THEN Tail(h) ELSE h

\* lines 137-139: the smoothed reference level after this tick
SmoothPeak(level, history) ==
    LET target == Max2(Percentile85(history), PEAK_FLOOR)
    IN (level * 8 + target * 2) \div 10

\* normalisation without the min(1.0, ...) clamp
Normalize_Unclamped(v, level) == (v * 850) \div level

\* line 142: one normalised bar
Normalize(v, level) == Min2(UNIT, (v * 850) \div level)

\* Recorder._send_waveform on a non-empty pending buffer: the event written
\* and the waveform state left behind.
SendWaveform(buffer, level, history) ==
    LET audio == AbsSeq(Concat(buffer))
        raw_values == RawValues(audio)
        current_max == SeqMax(raw_values)
        h == PushHistory(history, current_max)
        lvl == SmoothPeak(level, h)
    IN [event |-> [type |-> "waveform",
                   values |-> [b \in 1..Len(raw_values) |-> Normalize(raw_values[b], lvl)],
                   raw_peak |-> current_max],
        peak_level |-> lvl,
        peak_history |-> h]

\* ------------------------------------------------------------------ state
VARIABLES
    \* Recorder fields (audio_worker.py lines 33-41); since_waveform is
    \* time.time() - _last_waveform_time, counted up to WAVEFORM_INTERVAL_MS
    recording, stream, chunks, sample_rate, channels, since_waveform,
    waveform_buffer, peak_level, peak_history,
    \* the worker's surroundings: the stream the driver is running, the files
    \* written, the last waveform event written to stdout
    driver, files, last_event,
    \* the protocol thread inside a Recorder call: position, arguments, the
    \* locals `stream` and `chunks` of stop/cancel/start, the call's outcome
    rpc, rargs, lstream, lchunks, ret,
    \* the driver thread inside the capture callback: position and `indata`
    cpc, indata,
    \* history: blocks delivered on the running stream, chunks appended since
    \* the last start, how many of them were appended when stop took the buffer,
    \* calls made, the outcome of the call before the current one
    delivered, fed, taken, ncalls, prev,
    \* main (lines 194-245): whether the protocol loop runs or how it ended,
    \* the request it is handling, the lines it has read from stdin and the
    \* messages it has written to stdout, both in order
    mstatus, mreq, seen, out

recvars == <<recording, stream, chunks, sample_rate, channels, since_waveform,
             waveform_buffer, peak_level, peak_history>>
envvars == <<driver, files, last_event>>
callvars == <<rpc, rargs, lstream, lchunks, ret>>
cbvars == <<cpc, indata>>
histvars == <<delivered, fed, taken, ncalls, prev>>
mainvars == <<mstatus, mreq, seen, out>>
workervars == <<recvars, envvars, callvars, cbvars, histvars, mainvars>>

\* AudioWorkerClient (audio_worker_client.py) and the worker process it drives.
VARIABLES
    \* per calling thread: position, operation, locals, outcome
    tpc, top, attempt, spawn_attempt, req_id, tmsg, tresult,
    \* the client object (lines 25-34)
    lock, write_lock, proc, messages, next_id,
    \* the worker process behind _proc: its stdin, the reader thread of its
    \* stdout, the queue the reader fills
    walive, wboot, wrecording, stdin, reader, queue,
    \* history: processes spawned, stray lines written, calls made,
    \* the last message the wait in progress skipped, the crash under observation,
    \* consecutive cancel_recording calls that found no worker
    spawned, noise, ncc, skipped, session, observer, noop_cancels,
    \* handles torn down by _stop_locked, request ids written to a worker's
    \* stdin, whether ready was taken from the queue of the worker behind _proc
    teardowns, sent, ready_seen

threadvars == <<tpc, top, attempt, spawn_attempt, req_id, tmsg, tresult, skipped>>
objvars == <<lock, write_lock, proc, messages, next_id>>
procvars == <<walive, wboot, wrecording, stdin, reader, queue>>
teardownvars == <<proc, walive, wboot, wrecording, stdin, reader, teardowns, ready_seen>>
ghostvars == <<spawned, noise, ncc, session, observer, noop_cancels>>
tracevars == <<teardowns, sent, ready_seen>>
clientvars == <<threadvars, objvars, procvars, ghostvars, tracevars>>

\* One run of _stop_locked (audio_worker_client.py, lines 266-316) step by
\* step: where it stands, its argument force, whether the process behind the
\* handle is alive, whether the reader thread is still in its loop, and the
\* calls made on the process so far.
VARIABLE td

\* The reader threads of the client (audio_worker_client.py, _read_stdout,
\* lines 148-167), one per worker process spawned, each with the stdout and
\* the queue it was started with (line 235):
\*   rd_n         worker processes spawned so far
\*   rd_proc      self._proc, the instance held, or NoProc
\*   rd_messages  the queue self._messages refers to (0: the one of __init__,
\*                which no thread writes to and none reads without a handle)
\*   rd_cb        whether self._waveform_callback is set
\* and, by instance, one entry for each spawned so far:
\*   rd_script    what instance k writes to its stdout unless it ends before
\*   rd_written   how many of these lines it has written
\*   rd_pos       how many lines the reader of instance k has read
\*   rd_alive     whether the process of instance k is alive
\*   rd_state     the reader thread of instance k: none, reading, done, dead
\*   rd_queue     the queues, by the instance they were created for
\*   rd_got       what _wait_for_locked has taken, and for which instance
\*   rd_calls     what became of each waveform event the reader of k read
VARIABLES rd_n, rd_proc, rd_messages, rd_cb, rd_script, rd_written, rd_pos, rd_alive, rd_state,
          rd_queue, rd_got, rd_calls

readervars == <<rd_n, rd_proc, rd_messages, rd_cb, rd_script, rd_written, rd_pos, rd_alive,
                rd_state, rd_queue, rd_got, rd_calls>>

\* ------------------------------------------------------------ input domains
\* the blocks the driver delivers: one frame, two frames
ChunkSet == {<<500>>, <<250, -1000>>}
\* the blocks the driver may deliver after k earlier ones on the same stream:
\* any block first, then two-frame and one-frame blocks in turn
DriverBlocks(k) ==
    IF k = 0 THEN ChunkSet
    ELSE IF k % 2 = 1 THEN {<<250, -1000>>} ELSE {<<500>>}
\* sd.query_devices() before and after a USB microphone is plugged in; "spk"
\* is an output-only device
Unplugged ==
    << [name |-> "spk", max_input_channels |-> 0],
       [name |-> "mic", max_input_channels |-> 1] >>
Plugged ==
    << [name |-> "spk", max_input_channels |-> 0],
       [name |-> "usb", max_input_channels |-> 2],
       [name |-> "mic", max_input_channels |-> 1] >>
\* start requests (device_name, sample_rate, channels) with the device list
\* the driver reports during the call
StartArgs ==
    { <<None, 16000, 1, Unplugged>>, <<"", 16000, 1, Plugged>>,
      <<"usb", 44100, 2, Plugged>>, <<"usb", 44100, 2, Unplugged>>,
      <<"spk", 16000, 1, Plugged>> }
Paths == {"a.wav", "b.wav"}
\* a block of n frames swinging between a and -a/2
WaveBlock(n, a) == [i \in 1..n |-> IF i % 2 = 1 THEN a ELSE -(a \div 2)]
\* block lengths whose sums fall below, on and above multiples of 24, and
\* amplitudes from silence to full scale
WaveLens == {1, 23, 50}
WaveAmps == {0, 3, 1000}
WaveChunkSet == {WaveBlock(n, a) : n \in WaveLens, a \in WaveAmps}

\* Python None for a stream, a device index, a sample rate, a file
NoStream == [device |-> -1, samplerate |-> 0, channels |-> 0]
NoIndex == -1
NoFile == <<>>
NoArgs ==
    [device_name |-> None, sample_rate |-> 0, channels |-> 0, wav_path |-> None,
     devices |-> <<>>]
NoRet == [op |-> None, status |-> None, error |-> None, frames |-> 0, peak |-> 0]

Pending(op) == [NoRet EXCEPT !.op = op, !.status = "pending"]
Returned(op, frames, peak) ==
    [op |-> op, status |-> "ok", error |-> None, frames |-> frames, peak |-> peak]
Raised(op, error) == [NoRet EXCEPT !.op = op, !.status = "error", !.error = error]

\* what a finished call is remembered by: its error, or its name
Outcome(r) == IF r.status = "error" THEN r.error ELSE r.op

\* ------------------------------------------------------------ Recorder.start
\* _resolve_device without the max_input_channels test
ResolveDevice_AnyDirection(name, devs) ==
    LET hits == {i \in 1..Len(devs) : devs[i].name = name}
    IN IF hits = {} THEN -1
       ELSE (CHOOSE i \in hits : \A j \in hits : i <= j) - 1

\* Recorder._resolve_device: the first input-capable device of that name
ResolveDevice(name, devs) ==
    LET hits == {i \in 1..Len(devs) :
                    devs[i].max_input_channels > 0 /\ devs[i].name = name}
    IN IF hits = {} THEN NoIndex
       ELSE (CHOOSE i \in hits : \A j \in hits : i <= j) - 1

\* `if device_name:` (None and "" are falsy)
Truthy(name) == name # None /\ name # ""

\* the protocol loop calls recorder.start(...); devs is what sd.query_devices()
\* returns during the call
StartEnter(dev, rate, ch, devs) ==
    /\ rpc = "idle"
    /\ ncalls < MaxCalls
    /\ ncalls' = ncalls + 1
    /\ prev' = Outcome(ret)
    /\ rpc' = "start"
    /\ rargs' = [NoArgs EXCEPT !.device_name = dev, !.sample_rate = rate, !.channels = ch,
                                !.devices = devs]
    /\ ret' = Pending("start")
    /\ UNCHANGED <<td, readervars, clientvars, recvars, envvars, lstream, lchunks, cbvars, delivered, fed, taken>>

\* the call as a step of Spec and SpecWave, where main is left out
StartCall(dev, rate, ch, devs) == StartEnter(dev, rate, ch, devs) /\ UNCHANGED mainvars

\* start with the Recording check placed after the session reset
StartAlreadyRecording_AfterReset ==
    /\ rpc = "start"
    /\ recording
    /\ chunks' = <<>>
    /\ waveform_buffer' = <<>>
    /\ ret' = Raised("start", "Already recording")
    /\ rpc' = "idle"
    /\ rargs' = NoArgs
    /\ UNCHANGED <<td, readervars, clientvars, mainvars, recording, stream, sample_rate, channels, since_waveform, peak_level,
                   peak_history, envvars, lstream, lchunks, cbvars, histvars>>

\* lines 44-45
StartAlreadyRecording ==
    /\ rpc = "start"
    /\ recording
    /\ ret' = Raised("start", "Already recording")
    /\ rpc' = "idle"
    /\ rargs' = NoArgs
    /\ UNCHANGED <<td, readervars, clientvars, mainvars, recvars, envvars, lstream, lchunks, cbvars, histvars>>

\* lines 51-56
StartDeviceNotFound ==
    /\ rpc = "start"
    /\ ~recording
    /\ Truthy(rargs.device_name)
    /\ ResolveDevice(rargs.device_name, rargs.devices) = NoIndex
    /\ ret' = Raised("start", "Audio device not found")
    /\ rpc' = "idle"
    /\ rargs' = NoArgs
    /\ UNCHANGED <<td, readervars, clientvars, mainvars, recvars, envvars, lstream, lchunks, cbvars, histvars>>

\* lines 51-65: the device resolves (or none was named) and the session state
\* is reset
StartInit ==
    /\ rpc = "start"
    /\ ~recording
    /\ Truthy(rargs.device_name) => ResolveDevice(rargs.device_name, rargs.devices) # NoIndex
    /\ chunks' = <<>>
    /\ sample_rate' = rargs.sample_rate
    /\ channels' = rargs.channels
    /\ recording' = TRUE
    /\ since_waveform' = 0
    /\ waveform_buffer' = <<>>
    /\ peak_level' = INITIAL_PEAK_LEVEL
    /\ peak_history' = <<>>
    /\ lstream' = [device |-> IF Truthy(rargs.device_name)
                              THEN ResolveDevice(rargs.device_name, rargs.devices)
                              ELSE NoIndex,
                   samplerate |-> rargs.sample_rate,
                   channels |-> rargs.channels]
    /\ rpc' = "start_open"
    /\ fed' = <<>>
    /\ taken' = 0
    /\ UNCHANGED <<td, readervars, clientvars, mainvars, stream, envvars, rargs, lchunks, ret, cbvars, delivered, ncalls, prev>>

\* lines 80-88: sd.InputStream(...) and stream.start() succeed, the driver
\* begins to call the callback, and the stream is attached
StartOpen ==
    /\ rpc = "start_open"
    /\ driver' = lstream
    /\ stream' = lstream
    /\ lstream' = NoStream
    /\ delivered' = 0
    /\ ret' = Returned("start", 0, 0)
    /\ rpc' = "idle"
    /\ rargs' = NoArgs
    /\ UNCHANGED <<td, readervars, clientvars, mainvars, recording, chunks, sample_rate, channels, since_waveform,
                   waveform_buffer, peak_level, peak_history, files, last_event, lchunks,
                   cbvars, fed, taken, ncalls, prev>>

\* lines 80-87: the driver refuses to open or start the stream
StartOpenFails ==
    /\ rpc = "start_open"
    /\ ret' = Raised("start", "Error opening InputStream")
    /\ rpc' = "idle"
    /\ rargs' = NoArgs
    /\ lstream' = NoStream
    /\ UNCHANGED <<td, readervars, clientvars, mainvars, recvars, envvars, lchunks, cbvars, histvars>>

\* ------------------------------------------------------------- Recorder.stop
StopEnter(path) ==
    /\ rpc = "idle"
    /\ ncalls < MaxCalls
    /\ ncalls' = ncalls + 1
    /\ prev' = Outcome(ret)
    /\ rpc' = "stop"
    /\ rargs' = [NoArgs EXCEPT !.wav_path = path]
    /\ ret' = Pending("stop")
    /\ UNCHANGED <<td, readervars, clientvars, recvars, envvars, lstream, lchunks, cbvars, delivered, fed, taken>>

\* the call as a step of Spec and SpecWave, where main is left out
StopCall(path) == StopEnter(path) /\ UNCHANGED mainvars

\* stop that writes a container even when Idle
StopIdle_WritesEmptyFile ==
    /\ rpc = "stop"
    /\ ~recording
    /\ ret' = Returned("stop", 0, 0)
    /\ files' = [files EXCEPT ![rargs.wav_path] = <<[rate |-> DEFAULT_SAMPLE_RATE, data |-> <<>>]>>]
    /\ rpc' = "idle"
    /\ rargs' = NoArgs
    /\ UNCHANGED <<td, readervars, clientvars, mainvars, recvars, driver, last_event, lstream, lchunks, cbvars, histvars>>

\* lines 147-148
StopIdle ==
    /\ rpc = "stop"
    /\ ~recording
    /\ ret' = Returned("stop", 0, 0)
    /\ rpc' = "idle"
    /\ rargs' = NoArgs
    /\ UNCHANGED <<td, readervars, clientvars, mainvars, recvars, envvars, lstream, lchunks, cbvars, histvars>>

\* lines 151-154 without the flip of line 150
StopTake_KeepsRecording ==
    /\ rpc = "stop"
    /\ recording
    /\ recording' = recording
    /\ lstream' = stream
    /\ stream' = NoStream
    /\ lchunks' = chunks
    /\ chunks' = <<>>
    /\ taken' = Len(fed)
    /\ rpc' = "stop_abort"
    /\ UNCHANGED <<td, readervars, clientvars, mainvars, sample_rate, channels, since_waveform, waveform_buffer, peak_level,
                   peak_history, envvars, rargs, ret, cbvars, delivered, fed, ncalls, prev>>

\* lines 150-154: the state flips to Idle, then the stream and the chunk list
\* move into locals
StopTake ==
    /\ rpc = "stop"
    /\ recording
    /\ recording' = FALSE
    /\ lstream' = stream
    /\ stream' = NoStream
    /\ lchunks' = chunks
    /\ chunks' = <<>>
    /\ taken' = Len(fed)
    /\ rpc' = "stop_abort"
    /\ UNCHANGED <<td, readervars, clientvars, mainvars, sample_rate, channels, since_waveform, waveform_buffer, peak_level,
                   peak_history, envvars, rargs, ret, cbvars, delivered, fed, ncalls, prev>>

\* the container wavfile.write produces
WavFile(rate, audio) ==
    [rate |-> IF rate = 0 THEN DEFAULT_SAMPLE_RATE ELSE rate,
     data |-> [i \in 1..Len(audio) |-> ToInt16(audio[i])]]

\* stop with the peak taken without np.abs
StopWrite_SignedPeak ==
    /\ rpc = "stop_abort"
    /\ lstream # NoStream => cpc = "none"
    /\ driver' = IF lstream # NoStream THEN NoStream ELSE driver
    /\ IF lchunks = <<>>
       THEN /\ ret' = Returned("stop", 0, 0)
            /\ files' = files
       ELSE LET audio == Concat(lchunks)
            IN /\ ret' = Returned("stop", Len(audio), SeqMax(audio))
               /\ files' = [files EXCEPT ![rargs.wav_path] = <<WavFile(sample_rate, audio)>>]
    /\ lstream' = NoStream
    /\ lchunks' = <<>>
    /\ rpc' = "idle"
    /\ rargs' = NoArgs
    /\ UNCHANGED <<td, readervars, clientvars, mainvars, recvars, last_event, cbvars, histvars>>

\* stop whose abort and close return while a callback invocation is running
StopWrite_NoWait ==
    /\ rpc = "stop_abort"
    /\ driver' = IF lstream # NoStream THEN NoStream ELSE driver
    /\ IF lchunks = <<>>
       THEN /\ ret' = Returned("stop", 0, 0)
            /\ files' = files
       ELSE LET audio == Concat(lchunks)
            IN /\ ret' = Returned("stop", Len(audio), SeqMax(AbsSeq(audio)))
               /\ files' = [files EXCEPT ![rargs.wav_path] = <<WavFile(sample_rate, audio)>>]
    /\ lstream' = NoStream
    /\ lchunks' = <<>>
    /\ rpc' = "idle"
    /\ rargs' = NoArgs
    /\ UNCHANGED <<td, readervars, clientvars, mainvars, recvars, last_event, cbvars, histvars>>

\* lines 156-175: abort and close return once the driver thread has left the
\* callback (their errors are logged, not raised); then the taken chunks are
\* written
StopWrite ==
    /\ rpc = "stop_abort"
    /\ lstream # NoStream => cpc = "none"
    /\ driver' = IF lstream # NoStream THEN NoStream ELSE driver
    /\ IF lchunks = <<>>
       THEN /\ ret' = Returned("stop", 0, 0)
            /\ files' = files
       ELSE LET audio == Concat(lchunks)
            IN /\ ret' = Returned("stop", Len(audio), SeqMax(AbsSeq(audio)))
               /\ files' = [files EXCEPT ![rargs.wav_path] = <<WavFile(sample_rate, audio)>>]
    /\ lstream' = NoStream
    /\ lchunks' = <<>>
    /\ rpc' = "idle"
    /\ rargs' = NoArgs
    /\ UNCHANGED <<td, readervars, clientvars, mainvars, recvars, last_event, cbvars, histvars>>

\* ----------------------------------------------------------- Recorder.cancel
CancelEnter ==
    /\ rpc = "idle"
    /\ ncalls < MaxCalls
    /\ ncalls' = ncalls + 1
    /\ prev' = Outcome(ret)
    /\ rpc' = "cancel"
    /\ rargs' = NoArgs
    /\ ret' = Pending("cancel")
    /\ UNCHANGED <<td, readervars, clientvars, recvars, envvars, lstream, lchunks, cbvars, delivered, fed, taken>>

\* the call as a step of Spec and SpecWave, where main is left out
CancelCall == CancelEnter /\ UNCHANGED mainvars

\* cancel without `self._chunks = []`
CancelClear_KeepsChunks ==
    /\ rpc = "cancel"
    /\ recording' = FALSE
    /\ rpc' = "cancel_abort"
    /\ UNCHANGED <<td, readervars, clientvars, mainvars, stream, chunks, sample_rate, channels, since_waveform, waveform_buffer,
                   peak_level, peak_history, envvars, rargs, lstream, lchunks, ret, cbvars,
                   histvars>>

\* lines 178-179
CancelClear ==
    /\ rpc = "cancel"
    /\ recording' = FALSE
    /\ chunks' = <<>>
    /\ rpc' = "cancel_abort"
    /\ UNCHANGED <<td, readervars, clientvars, mainvars, stream, sample_rate, channels, since_waveform, waveform_buffer,
                   peak_level, peak_history, envvars, rargs, lstream, lchunks, ret, cbvars,
                   histvars>>

\* lines 181-188: detach, then abort and close as in stop
CancelAbort ==
    /\ rpc = "cancel_abort"
    /\ stream # NoStream => cpc = "none"
    /\ stream' = NoStream
    /\ driver' = IF stream # NoStream THEN NoStream ELSE driver
    /\ ret' = Returned("cancel", 0, 0)
    /\ rpc' = "idle"
    /\ rargs' = NoArgs
    /\ UNCHANGED <<td, readervars, clientvars, mainvars, recording, chunks, sample_rate, channels, since_waveform,
                   waveform_buffer, peak_level, peak_history, files,
                   last_event, lstream, lchunks, cbvars, histvars>>

\* --------------------------------------------------------- capture callback
\* lines 67-70: the driver delivers a block; the callback reads _recording and
\* returns at once when it is False
CbEnter(c, max) ==
    /\ driver # NoStream
    /\ cpc = "none"
    /\ IF recording
       THEN /\ delivered < max
            /\ delivered' = delivered + 1
            /\ cpc' = "append"
            /\ indata' = c
       ELSE UNCHANGED <<cbvars, delivered>>
    /\ UNCHANGED <<td, readervars, clientvars, mainvars, recvars, envvars, callvars, fed, taken, ncalls, prev>>

\* line 71
CbAppend ==
    /\ cpc = "append"
    /\ chunks' = Append(chunks, indata)
    /\ fed' = Append(fed, indata)
    /\ cpc' = "waveform"
    /\ UNCHANGED <<td, readervars, clientvars, mainvars, recording, stream, sample_rate, channels, since_waveform,
                   waveform_buffer, peak_level, peak_history, envvars, callvars, indata,
                   delivered, taken, ncalls, prev>>

\* lines 72-78 with _send_waveform (lines 97-144); nothing else touches the
\* waveform state while a stream runs
CbWaveform ==
    /\ cpc = "waveform"
    /\ LET buffer == Append(waveform_buffer, indata)
       IN IF since_waveform >= WAVEFORM_INTERVAL_MS
          THEN LET w == SendWaveform(buffer, peak_level, peak_history)
               IN /\ since_waveform' = 0
                  /\ waveform_buffer' = <<>>
                  /\ peak_level' = w.peak_level
                  /\ peak_history' = w.peak_history
                  /\ last_event' = <<w.event>>
          ELSE /\ waveform_buffer' = buffer
               /\ UNCHANGED <<since_waveform, peak_level, peak_history, last_event>>
    /\ cpc' = "none"
    /\ indata' = <<>>
    /\ UNCHANGED <<td, readervars, clientvars, mainvars, recording, stream, chunks, sample_rate, channels, driver, files,
                   callvars, histvars>>

\* -------------------------------------------------------------- surroundings
\* time.time() has moved on by a waveform interval when the callback reads it
\* at line 75, the only place the clock is compared
Advance ==
    /\ cpc = "waveform"
    /\ since_waveform < WAVEFORM_INTERVAL_MS
    /\ since_waveform' = since_waveform + WAVEFORM_INTERVAL_MS
    /\ UNCHANGED <<td, readervars, clientvars, mainvars, recording, stream, chunks, sample_rate, channels, waveform_buffer,
                   peak_level, peak_history, envvars, callvars, cbvars, histvars>>

\* ------------------------------------------------------------ client values
\* Threads that call the one client object.
Callers == {1, 2}
Ops == {"start_recording", "stop_recording", "cancel_recording", "ensure_running", "stop"}

NoHolder == 0
NoProc == 0
NoId == 0
FIRST_ID == 1

\* A line of the protocol as the reader decodes it; "none" is Python's None.
Msg(type, id, frames, error) == [type |-> type, id |-> id, frames |-> frames, error |-> error]
NoMsg == Msg("none", NoId, 0, "")
ReadyMsg == Msg("ready", NoId, 0, "")
EofMsg == Msg("eof", NoId, 0, "")
\* _wait_for_locked, line 204
EofError == Msg("error", NoId, 0, "Audio worker exited unexpectedly")

\* What the worker process may write besides its responses: a line that is
\* not JSON, an error without an id, a waveform event.
NoiseLines == {Msg("text", NoId, 0, ""), Msg("error", NoId, 0, "stray"),
               Msg("waveform", NoId, 0, "")}

\* Frames a stop of a recording session reports.
FrameCounts == {0, 4}

\* The command a client operation sends and the response that ends it.
Command(op) ==
    CASE op = "start_recording" -> "start"
      [] op = "stop_recording" -> "stop"
      [] op = "cancel_recording" -> "cancel"
      [] OTHER -> "none"

Terminal(op) ==
    CASE op = "start_recording" -> {"started", "error"}
      [] op = "stop_recording" -> {"stopped", "error"}
      [] op = "cancel_recording" -> {"canceled", "error"}
      [] OTHER -> {}

TimeoutMessage(op) ==
    CASE op = "start_recording" -> "Timed out starting audio recording"
      [] op = "stop_recording" -> "Timed out stopping audio recording"
      [] op = "cancel_recording" -> "Timed out cancelling audio recording"
      [] OTHER -> ""

FailureMessage(op) ==
    CASE op = "start_recording" -> "Failed to start recording"
      [] op = "stop_recording" -> "Failed to stop recording"
      [] op = "cancel_recording" -> "Failed to cancel recording"
      [] OTHER -> ""

\* The outcome of a client call.
NoResult == [kind |-> "none", frames |-> 0, error |-> ""]
Ok == [kind |-> "returned", frames |-> 0, error |-> ""]
Frames(n) == [kind |-> "returned", frames |-> n, error |-> ""]
Error(e) == [kind |-> "raised", frames |-> 0, error |-> e]

\* AudioWorkerClient.__init__ (lines 25-34); no worker process exists yet.
ClientInit ==
    /\ tpc = [t \in Callers |-> "idle"]
    /\ top = [t \in Callers |-> "none"]
    /\ attempt = [t \in Callers |-> 0]
    /\ spawn_attempt = [t \in Callers |-> 0]
    /\ req_id = [t \in Callers |-> NoId]
    /\ tmsg = [t \in Callers |-> NoMsg]
    /\ tresult = [t \in Callers |-> NoResult]
    /\ lock = NoHolder
    /\ write_lock = NoHolder
    /\ proc = NoProc
    /\ messages = NoProc
    /\ next_id = FIRST_ID
    /\ walive = "none"
    /\ wboot = FALSE
    /\ wrecording = FALSE
    /\ stdin = <<>>
    /\ reader = "none"
    /\ queue = <<>>
    /\ spawned = 0
    /\ noise = 0
    /\ ncc = 0
    /\ skipped = [t \in Callers |-> NoMsg]
    /\ session = "none"
    /\ observer = NoHolder
    /\ noop_cancels = 0
    /\ teardowns = 0
    /\ sent = <<>>
    /\ ready_seen = FALSE

\* ------------------------------------------------------------ specification
vars == <<workervars, clientvars, td, readervars>>

\* No _stop_locked has been entered.
NoTeardown ==
    [pc |-> "none", force |-> FALSE, alive |-> FALSE, reader |-> "none", raised |-> FALSE,
     log |-> <<>>]

\* AudioWorkerClient.__init__ (lines 26-34): no process, a queue nobody writes
\* to, no waveform callback
ReaderInit ==
    /\ rd_n = 0
    /\ rd_proc = 0
    /\ rd_messages = 0
    /\ rd_cb = FALSE
    /\ rd_script = <<>>
    /\ rd_written = <<>>
    /\ rd_pos = <<>>
    /\ rd_alive = <<>>
    /\ rd_state = <<>>
    /\ rd_queue = <<>>
    /\ rd_got = <<>>
    /\ rd_calls = <<>>

\* A line of stdin as main sees it: its "type", and its "id".
Req(type, id) == [type |-> type, id |-> id]
NoReq == Req("none", NoId)
\* A message written by main: type, the id it carries, the error text.
Out(type, id, error) == [type |-> type, id |-> id, error |-> error]

\* main, lines 195-196: the Recorder is constructed and ready is written
\* before the first line is read.
MainInit ==
    /\ mstatus = "running"
    /\ mreq = NoReq
    /\ seen = <<>>
    /\ out = <<Out("ready", NoId, "")>>

\* Recorder.__init__ (lines 32-41) in a fresh worker process
Init ==
    /\ recording = FALSE
    /\ stream = NoStream
    /\ chunks = <<>>
    /\ sample_rate = 0
    /\ channels = 0
    /\ since_waveform = 0
    /\ waveform_buffer = <<>>
    /\ peak_level = INITIAL_PEAK_LEVEL
    /\ peak_history = <<>>
    /\ driver = NoStream
    /\ files = [p \in Paths |-> NoFile]
    /\ last_event = <<>>
    /\ rpc = "idle"
    /\ rargs = NoArgs
    /\ lstream = NoStream
    /\ lchunks = <<>>
    /\ ret = NoRet
    /\ cpc = "none"
    /\ indata = <<>>
    /\ delivered = 0
    /\ fed = <<>>
    /\ taken = 0
    /\ ncalls = 0
    /\ prev = None
    /\ MainInit
    /\ ClientInit
    /\ td = NoTeardown
    /\ ReaderInit

RecorderCall ==
    \/ \E a \in StartArgs : StartCall(a[1], a[2], a[3], a[4])
    \/ \E p \in Paths : StopCall(p)
    \/ CancelCall

RecorderStep ==
    \/ StartAlreadyRecording
    \/ StartDeviceNotFound
    \/ StartInit
    \/ StartOpen
    \/ StartOpenFails
    \/ StopIdle
    \/ StopTake
    \/ StopWrite
    \/ CancelClear
    \/ CancelAbort

CallbackStep ==
    \/ \E c \in DriverBlocks(delivered) : CbEnter(c, MaxChunks)
    \/ CbAppend
    \/ CbWaveform

Next ==
    \/ RecorderCall
    \/ RecorderStep
    \/ CallbackStep
    \/ Advance

Spec == Init /\ [][Next]_vars

\* One recording session fed with long blocks: the waveform pipeline at work.
WaveSession ==
    \/ ncalls = 0 /\ StartCall(None, 16000, 1, Unplugged)
    \/ StartInit
    \/ StartOpen

WaveCallback ==
    \/ \E c \in WaveChunkSet : CbEnter(c, MaxWaveChunks)
    \/ CbAppend
    \/ CbWaveform
    \/ Advance

NextWave ==
    \/ WaveSession
    \/ WaveCallback

SpecWave == Init /\ [][NextWave]_vars

\* ============================================================ protocol loop
\* main (audio_worker.py, lines 194-245) around the Recorder above.
MaxLines == 2

\* The terminal message of a request type (lines 225, 231, 236).
TerminalOf(type) ==
    CASE type = "start" -> "started"
      [] type = "stop" -> "stopped"
      [] type = "cancel" -> "canceled"
      [] OTHER -> "none"

\* Lines that main reads and passes over: a blank line (lines 199-201), a
\* line that is not JSON (lines 203-207), an object of a type it does not
\* know (line 239).
IgnoredLines == {"blank", "non-json", "unknown"}

\* `for line in sys.stdin` hands out the next line: the loop is running and
\* the body for the line before has ended.
CanRead ==
    /\ mstatus = "running"
    /\ mreq = NoReq
    /\ Len(seen) < MaxLines

\* The request is noted with the id it carries: here the number of its line.
Reads(type) ==
    /\ mreq' = Req(type, Len(seen) + 1)
    /\ seen' = Append(seen, Req(type, Len(seen) + 1))
    /\ UNCHANGED <<mstatus, out>>

\* lines 218-223
MainStart(dev, rate, ch, devs) ==
    /\ CanRead
    /\ Reads("start")
    /\ StartEnter(dev, rate, ch, devs)

\* lines 227-230, wav_path given
MainStop(path) ==
    /\ CanRead
    /\ Reads("stop")
    /\ StopEnter(path)

\* lines 227-229 and 240-243, wav_path missing or empty: ValueError before
\* the recorder is called
MainStopNoPath ==
    /\ CanRead
    /\ seen' = Append(seen, Req("stop", Len(seen) + 1))
    /\ out' = Append(out, Out("error", Len(seen) + 1, "Missing wav_path"))
    /\ UNCHANGED <<td, readervars, clientvars, recvars, envvars, callvars, cbvars, histvars, mstatus, mreq>>

\* lines 234-235
MainCancel ==
    /\ CanRead
    /\ Reads("cancel")
    /\ CancelEnter

\* the error of lines 240-243 written without the id of the request
MainRespond_ErrorWithoutId ==
    /\ mreq.type \in {"start", "stop", "cancel"}
    /\ rpc = "idle"
    /\ out' = Append(out, IF ret.status = "error"
                          THEN Out("error", NoId, ret.error)
                          ELSE Out(TerminalOf(mreq.type), mreq.id, ""))
    /\ mreq' = NoReq
    /\ UNCHANGED <<td, readervars, clientvars, recvars, envvars, callvars, cbvars, histvars, mstatus, seen>>

\* lines 225, 231, 236 and 240-243: the call has returned or raised; the
\* terminal message or the error is written with the id of the request
MainRespond ==
    /\ mreq.type \in {"start", "stop", "cancel"}
    /\ rpc = "idle"
    /\ out' = Append(out, IF ret.status = "error"
                          THEN Out("error", mreq.id, ret.error)
                          ELSE Out(TerminalOf(mreq.type), mreq.id, ""))
    /\ mreq' = NoReq
    /\ UNCHANGED <<td, readervars, clientvars, recvars, envvars, callvars, cbvars, histvars, mstatus, seen>>

\* shutdown without line 214
MainShutdown_NoCancel ==
    /\ CanRead
    /\ Reads("shutdown")
    /\ UNCHANGED <<td, readervars, clientvars, recvars, envvars, callvars, cbvars, histvars>>

\* lines 213-214: shutdown calls recorder.shutdown(), which is cancel()
MainShutdown ==
    /\ CanRead
    /\ Reads("shutdown")
    /\ CancelEnter

\* lines 215-216: shutdown_ack is written and main returns 0
MainShutdownAck ==
    /\ mreq.type = "shutdown"
    /\ rpc = "idle"
    /\ out' = Append(out, Out("shutdown_ack", NoId, ""))
    /\ mreq' = NoReq
    /\ mstatus' = "exit 0"
    /\ UNCHANGED <<td, readervars, clientvars, recvars, envvars, callvars, cbvars, histvars, seen>>

\* lines 199-207 and 239: the line is passed over
MainIgnore(kind) ==
    /\ CanRead
    /\ seen' = Append(seen, Req(kind, NoId))
    /\ UNCHANGED <<td, readervars, clientvars, recvars, envvars, callvars, cbvars, histvars, mstatus, mreq, out>>

\* lines 203 and 209: the line is JSON but not an object (a list, a number,
\* a string, null).  json.loads returns it, and message.get, which is not
\* inside a try, raises AttributeError: main ends with a traceback.
MainNonObject ==
    /\ CanRead
    /\ seen' = Append(seen, Req("non-object", NoId))
    /\ mstatus' = "crashed"
    /\ UNCHANGED <<td, readervars, clientvars, recvars, envvars, callvars, cbvars, histvars, mreq, out>>

\* lines 198 and 245: stdin has ended
MainEof ==
    /\ mstatus = "running"
    /\ mreq = NoReq
    /\ mstatus' = "exit 0"
    /\ UNCHANGED <<td, readervars, clientvars, recvars, envvars, callvars, cbvars, histvars, mreq, seen, out>>

MainLine ==
    \/ \E a \in StartArgs : MainStart(a[1], a[2], a[3], a[4])
    \/ \E p \in Paths : MainStop(p)
    \/ MainStopNoPath
    \/ MainCancel
    \/ MainShutdown
    \/ \E kind \in IgnoredLines : MainIgnore(kind)
    \/ MainNonObject
    \/ MainEof

\* The threads of the process run while the process does.
MainRuns ==
    /\ mstatus = "running"
    /\ \/ RecorderStep
       \/ CallbackStep
       \/ Advance

NextMain ==
    \/ MainLine
    \/ MainRespond
    \/ MainShutdownAck
    \/ MainRuns

SpecMain == Init /\ [][NextMain]_vars

\* ================================================================= client
\* AudioWorkerClient.is_running (lines 40-41)
IsRunning_HandleOnly == proc # NoProc

IsRunning == proc # NoProc /\ walive \in {"running", "hung"}

\* threading.Lock: `with self._lock` enters only when nobody holds the lock.
LockFree_Always(holder) == TRUE

LockFree(holder) == holder = NoHolder

\* The predicates given to _wait_for_locked (lines 77, 109, 140).
Matches_AnyId(m, types, id) == m.type \in types

Matches(m, types, id) == m.type \in types /\ m.id = id

\* _wait_for_locked, lines 203-204, without the test for eof
Synthesized_Raw(m) == m

\* _wait_for_locked, lines 203-204: eof is handed on as an error
Synthesized(m) == IF m.type = "eof" THEN EofError ELSE m

\* The calls of _stop_locked that can raise.
StopCalls == {"stdin.close", "terminate", "stdout.close", "wait", "kill"}

\* The sets of raising calls tried: none, each call alone, terminate and kill
\* together, all.
ObstacleSets ==
    {{}, {"terminate", "kill"}, StopCalls} \cup {{c} : c \in StopCalls}

\* What the except clause that catches an exception of each call does: the
\* clauses of lines 276, 292, 315 and of lines 283, 296, 303 (TimeoutExpired)
\* pass; the clause of line 305 catches what terminate, kill or a wait raise
\* otherwise and kills the process (lines 306-310, where a second failure of
\* kill is passed over).
ExceptClause ==
    [c \in StopCalls |->
        CASE c = "stdin.close" -> "pass"
          [] c = "stdout.close" -> "pass"
          [] c = "wait" -> "pass"
          [] c = "terminate" -> "kill"
          [] c = "kill" -> "kill"]

\* The calls among obstacles (those that raise) whose exception leaves
\* _stop_locked.
Escapes(obstacles) == {c \in obstacles : ExceptClause[c] \notin {"pass", "kill"}}

\* proc.stdout.close() (line 291, and line 314 when terminate and kill both
\* raised) is called with the process still alive when the process ignores
\* the closing of its stdin and terminate.  The reader thread is then inside
\* its read of that stream (line 150), and the close waits for the read to
\* end, which it does only when the process exits: kill (line 300) is behind
\* the close.
StopBlocks(obstacles) ==
    /\ proc # NoProc
    /\ walive = "hung"
    /\ reader = "reading"
    /\ "terminate" \notin obstacles \/ "kill" \in obstacles

\* _stop_locked (lines 266-316): the handle is dropped, the pipes are closed
\* and the process behind the handle is gone when it returns.  With force
\* unset it first gives the process a second to exit (lines 280-284).
StopLockedWith(obstacles) ==
    /\ ~StopBlocks(obstacles)
    /\ proc' = NoProc
    /\ ready_seen' = FALSE
    /\ IF proc = NoProc
       THEN UNCHANGED <<walive, wboot, wrecording, stdin, reader, teardowns>>
       ELSE /\ walive' = "exited"
            /\ wboot' = FALSE
            /\ wrecording' = FALSE
            /\ stdin' = <<>>
            /\ reader' = "closed"
            /\ teardowns' = teardowns + 1

StopLocked == StopLockedWith({})

\* A spawn without the _stop_locked of lines 213 and 257 before it
Spawn_WithoutTeardown ==
    /\ spawned < MaxSpawns
    /\ spawned' = spawned + 1
    /\ proc' = spawned + 1
    /\ messages' = spawned + 1
    /\ queue' = <<>>
    /\ walive' = "running"
    /\ wboot' = FALSE
    /\ wrecording' = FALSE
    /\ stdin' = <<>>
    /\ reader' = "reading"
    /\ teardowns' = teardowns
    /\ ready_seen' = FALSE

\* _ensure_running_locked, lines 213 and 225-240 (or 257 and 225-240): the old
\* handle is torn down, a process is started with fresh pipes, a fresh queue
\* and its own reader thread.
Spawn ==
    /\ spawned < MaxSpawns
    /\ ~StopBlocks({})
    /\ spawned' = spawned + 1
    /\ proc' = spawned + 1
    /\ messages' = spawned + 1
    /\ queue' = <<>>
    /\ walive' = "running"
    /\ wboot' = FALSE
    /\ wrecording' = FALSE
    /\ stdin' = <<>>
    /\ reader' = "reading"
    /\ teardowns' = IF proc = NoProc THEN teardowns ELSE teardowns + 1
    /\ ready_seen' = FALSE

\* The locals of a call end with it.
DropLocals(t) ==
    /\ spawn_attempt' = [spawn_attempt EXCEPT ![t] = 0]
    /\ req_id' = [req_id EXCEPT ![t] = NoId]
    /\ tmsg' = [tmsg EXCEPT ![t] = NoMsg]
    /\ skipped' = [skipped EXCEPT ![t] = NoMsg]

\* return, leaving `with self._lock`
Return(t, res) ==
    /\ tpc' = [tpc EXCEPT ![t] = "idle"]
    /\ tresult' = [tresult EXCEPT ![t] = res]
    /\ attempt' = [attempt EXCEPT ![t] = 0]
    /\ lock' = NoHolder
    /\ DropLocals(t)

\* An exception inside the lock, were start_recording to skip line 87.
Raise_KeepsWorker(t, err, torn) ==
    LET retry == top[t] = "start_recording" /\ attempt[t] = 0 IN
    /\ IF torn THEN StopLocked ELSE UNCHANGED teardownvars
    /\ tpc' = [tpc EXCEPT ![t] = IF retry THEN "ensure" ELSE "idle"]
    /\ tresult' = [tresult EXCEPT ![t] = IF retry THEN @ ELSE Error(err)]
    /\ attempt' = [attempt EXCEPT ![t] = IF retry THEN 1 ELSE 0]
    /\ lock' = IF retry THEN lock ELSE NoHolder
    /\ DropLocals(t)

\* An exception inside the lock.  start_recording (lines 85-90) tears the worker
\* down and runs its loop once more; every other operation lets it propagate.
\* torn: the raising code has already run _stop_locked.
Raise(t, err, torn) ==
    LET retry == top[t] = "start_recording" /\ attempt[t] = 0 IN
    /\ IF torn \/ top[t] = "start_recording" THEN StopLocked ELSE UNCHANGED teardownvars
    /\ tpc' = [tpc EXCEPT ![t] = IF retry THEN "ensure" ELSE "idle"]
    /\ tresult' = [tresult EXCEPT ![t] = IF retry THEN @ ELSE Error(err)]
    /\ attempt' = [attempt EXCEPT ![t] = IF retry THEN 1 ELSE 0]
    /\ lock' = IF retry THEN lock ELSE NoHolder
    /\ DropLocals(t)

\* A thread calls an operation of the client.  Threads are interchangeable:
\* a call made while no other call is in progress is made by the first.
ClientCall(t, op) ==
    /\ tpc[t] = "idle"
    /\ \A u \in Callers : u < t => tpc[u] # "idle"
    /\ ncc < MaxClientCalls
    /\ ncc' = ncc + 1
    /\ tpc' = [tpc EXCEPT ![t] = "lock"]
    /\ top' = [top EXCEPT ![t] = op]
    /\ tresult' = [tresult EXCEPT ![t] = NoResult]
    /\ session' = IF session = "killed" THEN "observing" ELSE "none"
    /\ observer' = IF session = "killed" THEN t ELSE NoHolder
    /\ noop_cancels' = IF op = "cancel_recording" THEN noop_cancels ELSE 0
    /\ UNCHANGED <<td, readervars, workervars, tracevars, attempt, spawn_attempt, req_id, tmsg, objvars, procvars,
                   spawned, noise, skipped>>

\* `with self._lock:` (lines 44, 48, 52, 95, 125)
AcquireLock(t) ==
    /\ tpc[t] = "lock"
    /\ LockFree(lock)
    /\ lock' = t
    /\ tpc' = [tpc EXCEPT ![t] =
                 CASE top[t] = "cancel_recording" -> "cancel_check"
                   [] top[t] = "stop" -> "teardown"
                   [] OTHER -> "ensure"]
    /\ UNCHANGED <<td, readervars, workervars, tracevars, top, attempt, spawn_attempt, req_id, tmsg, tresult, skipped,
                   write_lock, proc, messages, next_id, procvars, ghostvars>>

\* _ensure_running_locked has returned (line 211 or 250): ensure_running is
\* done, a recording operation goes on to send its command.
Ensured(t) ==
    IF top[t] = "ensure_running"
    THEN Return(t, Ok)
    ELSE /\ tpc' = [tpc EXCEPT ![t] = "send"]
         /\ UNCHANGED <<tresult, attempt, lock, spawn_attempt, req_id, tmsg, skipped>>

\* _ensure_running_locked, lines 210-211
EnsureAlreadyRunning(t) ==
    /\ tpc[t] = "ensure"
    /\ IsRunning
    /\ Ensured(t)
    /\ UNCHANGED <<td, readervars, workervars, tracevars, top, write_lock, proc, messages, next_id, procvars,
                   spawned, noise, ncc, session, observer, noop_cancels>>

\* _ensure_running_locked, lines 210-240, first attempt
EnsureSpawn(t) ==
    /\ tpc[t] = "ensure"
    /\ ~IsRunning
    /\ Spawn
    /\ tpc' = [tpc EXCEPT ![t] = "ready_wait"]
    /\ spawn_attempt' = [spawn_attempt EXCEPT ![t] = 0]
    /\ UNCHANGED <<td, readervars, workervars, sent, top, attempt, req_id, tmsg, tresult, lock, write_lock,
                   next_id, noise, ncc, skipped, session, observer, noop_cancels>>

\* _wait_for_locked (lines 198-207) under the predicate of line 243: a message
\* that is neither eof nor ready nor error is dropped.
ReadySkip(t) ==
    /\ tpc[t] = "ready_wait"
    /\ queue # <<>>
    /\ Head(queue).type \notin {"eof", "ready", "error"}
    /\ queue' = Tail(queue)
    /\ UNCHANGED <<td, readervars, workervars, tracevars, threadvars, objvars, walive, wboot, wrecording, stdin,
                   reader, ghostvars>>

\* Line 246 left out: whatever satisfied the predicate of line 243 counts
IsReady_AnyMatch(m) == m.type \in {"ready", "error"}

\* line 246: `ready and ready.get("type") == "ready"`
IsReady(m) == m.type = "ready"

\* lines 242-250: the worker said ready
ReadyOk(t) ==
    /\ tpc[t] = "ready_wait"
    /\ queue # <<>>
    /\ IsReady(Head(queue))
    /\ queue' = Tail(queue)
    /\ ready_seen' = (Head(queue) = ReadyMsg)
    /\ Ensured(t)
    /\ UNCHANGED <<td, readervars, workervars, teardowns, sent, top, write_lock, proc, messages, next_id, walive, wboot,
                   wrecording, stdin, reader, spawned, noise, ncc, session,
                   observer, noop_cancels>>

\* What _wait_for_locked hands to line 242 when the worker did not say ready:
\* None at the deadline, the error synthesized from eof, or an error message.
ReadyFailure(timeout) ==
    IF timeout THEN NoMsg ELSE Synthesized(Head(queue))

ReadyFails(timeout) ==
    timeout \/ (queue # <<>> /\ Head(queue).type \in {"eof", "error"})

\* lines 252-255
ReadyErrorText(ready) ==
    IF ready = NoMsg THEN "Audio worker did not become ready in time"
    ELSE IF ready.error # "" THEN ready.error ELSE "Audio worker failed to start"

\* lines 252-260, first attempt: tear down and spawn once more
ReadyRetry(t, timeout) ==
    /\ tpc[t] = "ready_wait"
    /\ spawn_attempt[t] = 0
    /\ ReadyFails(timeout)
    /\ Spawn
    /\ spawn_attempt' = [spawn_attempt EXCEPT ![t] = 1]
    /\ UNCHANGED <<td, readervars, workervars, sent, tpc, top, attempt, req_id, tmsg, tresult, lock, write_lock,
                   next_id, noise, ncc, skipped, session, observer, noop_cancels>>

\* lines 252-263 without the _stop_locked of line 257
ReadyGiveUp_KeepsHandle(t, timeout) ==
    /\ tpc[t] = "ready_wait"
    /\ spawn_attempt[t] = 1
    /\ ReadyFails(timeout)
    /\ queue' = IF timeout THEN queue ELSE Tail(queue)
    /\ Raise(t, ReadyErrorText(ReadyFailure(timeout)), FALSE)
    /\ UNCHANGED <<td, readervars, workervars, sent, top, write_lock, messages, next_id, spawned, noise, ncc,
                   session, observer, noop_cancels>>

\* lines 252-263, second attempt: tear down and raise
ReadyGiveUp(t, timeout) ==
    /\ tpc[t] = "ready_wait"
    /\ spawn_attempt[t] = 1
    /\ ReadyFails(timeout)
    /\ queue' = IF timeout THEN queue ELSE Tail(queue)
    /\ Raise(t, ReadyErrorText(ReadyFailure(timeout)), TRUE)
    /\ UNCHANGED <<td, readervars, workervars, sent, top, write_lock, messages, next_id, spawned, noise, ncc,
                   session, observer, noop_cancels>>

\* Lines 57-74 (97-106, 128-137): the request id is taken, the write lock is
\* acquired, the line is written to the worker's stdin, the write lock is
\* released.  A request is far smaller than the pipe, so the write to a
\* living worker completes even when the worker reads nothing.
CanWrite == write_lock = NoHolder /\ proc # NoProc /\ walive \in {"running", "hung"}

\* The counter left as it is
NextId_Same(n) == n

\* self._next_id += 1 (lines 58, 98, 129)
NextId(n) == n + 1

SendCommand(t) ==
    /\ tpc[t] = "send"
    /\ CanWrite
    /\ req_id' = [req_id EXCEPT ![t] = next_id]
    /\ next_id' = NextId(next_id)
    /\ stdin' = Append(stdin, [type |-> Command(top[t]), id |-> next_id])
    /\ sent' = Append(sent, next_id)
    /\ tpc' = [tpc EXCEPT ![t] = "wait"]
    /\ UNCHANGED <<td, readervars, workervars, teardowns, ready_seen, top, attempt, spawn_attempt, tmsg, tresult, skipped, lock,
                   write_lock, proc, messages, walive, wboot, wrecording, reader,
                   queue, ghostvars>>

\* The same lines when the line cannot be written: the write lock is taken
\* (line 70), or the process has exited and the pipe is broken (line 183).
SendFails(t) ==
    /\ tpc[t] = "send"
    /\ ~CanWrite
    /\ next_id' = NextId(next_id)
    /\ Raise(t, IF write_lock # NoHolder
                THEN "Timed out waiting for audio worker write lock"
                ELSE "[Errno 32] Broken pipe", FALSE)
    /\ UNCHANGED <<td, readervars, workervars, sent, top, write_lock, messages, queue, spawned, noise, ncc,
                   session, observer, noop_cancels>>

\* _wait_for_locked, lines 191-194 and 200-201: the deadline passes.
WaitTimeout(t) ==
    /\ tpc[t] = "wait"
    /\ Raise(t, TimeoutMessage(top[t]), FALSE)
    /\ UNCHANGED <<td, readervars, workervars, sent, top, write_lock, messages, next_id, queue, spawned, noise,
                   ncc, session, observer, noop_cancels>>

\* _wait_for_locked, lines 199-207: a message that is not eof and does not
\* satisfy the predicate is dropped.
WaitSkip(t) ==
    /\ tpc[t] = "wait"
    /\ queue # <<>>
    /\ Head(queue).type # "eof"
    /\ ~Matches(Head(queue), Terminal(top[t]), req_id[t])
    /\ queue' = Tail(queue)
    /\ skipped' = [skipped EXCEPT ![t] = Head(queue)]
    /\ UNCHANGED <<td, readervars, workervars, tracevars, tpc, top, attempt, spawn_attempt, req_id, tmsg, tresult,
                   objvars, walive, wboot, wrecording, stdin, reader, ghostvars>>

\* _wait_for_locked, lines 203-207: eof becomes an error, a message that
\* satisfies the predicate is returned.
WaitMatch(t) ==
    /\ tpc[t] = "wait"
    /\ queue # <<>>
    /\ (Head(queue).type = "eof" \/ Matches(Head(queue), Terminal(top[t]), req_id[t]))
    /\ queue' = Tail(queue)
    /\ tmsg' = [tmsg EXCEPT ![t] = Synthesized(Head(queue))]
    /\ tpc' = [tpc EXCEPT ![t] = "reply"]
    /\ UNCHANGED <<td, readervars, workervars, tracevars, top, attempt, spawn_attempt, req_id, tresult, skipped,
                   objvars, walive, wboot, wrecording, stdin, reader, ghostvars>>

\* lines 82-84, 114-122, 145-146: the message is not an error
ReplyOk(t) ==
    /\ tpc[t] = "reply"
    /\ tmsg[t].type # "error"
    /\ Return(t, IF top[t] = "stop_recording" THEN Frames(tmsg[t].frames) ELSE Ok)
    /\ session' = IF top[t] = "start_recording" /\ \A u \in Callers \ {t} : tpc[u] = "idle"
                  THEN "started" ELSE session
    /\ UNCHANGED <<td, readervars, workervars, tracevars, top, write_lock, proc, messages, next_id, procvars,
                   spawned, noise, ncc, observer, noop_cancels>>

\* lines 82-83, 114-115, 145-146: the message is an error
ReplyError(t) ==
    /\ tpc[t] = "reply"
    /\ tmsg[t].type = "error"
    /\ Raise(t, IF tmsg[t].error # "" THEN tmsg[t].error ELSE FailureMessage(top[t]), FALSE)
    /\ UNCHANGED <<td, readervars, workervars, sent, top, write_lock, messages, next_id, queue, spawned, noise,
                   ncc, session, observer, noop_cancels>>

\* cancel_recording, lines 126-127
CancelNotRunning(t) ==
    /\ tpc[t] = "cancel_check"
    /\ ~IsRunning
    /\ Return(t, Ok)
    /\ noop_cancels' = IF noop_cancels < 2 THEN noop_cancels + 1 ELSE noop_cancels
    /\ UNCHANGED <<td, readervars, workervars, tracevars, top, write_lock, proc, messages, next_id, procvars,
                   spawned, noise, ncc, session, observer>>

\* cancel_recording, line 126 with a running worker
CancelRunning(t) ==
    /\ tpc[t] = "cancel_check"
    /\ IsRunning
    /\ tpc' = [tpc EXCEPT ![t] = "send"]
    /\ noop_cancels' = 0
    /\ UNCHANGED <<td, readervars, workervars, tracevars, top, attempt, spawn_attempt, req_id, tmsg, tresult, objvars,
                   procvars, spawned, noise, ncc, skipped, session, observer>>

\* stop (lines 47-49)
StopClient(t, obstacles) ==
    /\ tpc[t] = "teardown"
    /\ StopLockedWith(obstacles)
    /\ Return(t, IF Escapes(obstacles) = {} THEN Ok ELSE Error("teardown failed"))
    /\ UNCHANGED <<td, readervars, workervars, sent, top, write_lock, messages, next_id, queue, ghostvars>>

\* ----------------------------------------------------- the worker process
\* _read_stdout, lines 150-166, for one line of the worker's stdout: a
\* waveform event goes to the callback, a line that is not JSON is wrapped,
\* everything else is queued as it is.  The pipe and the queue are both
\* first-in first-out and the reader does nothing else, so a line is put
\* through the reader in the step that writes it.
Decoded(line) == IF line.type = "text" THEN Msg("stdout", NoId, 0, "") ELSE line

\* a reader that queues every line, lines 163-164 without line 156
ReadStdout_QueuesAll(q, line) == Append(q, Decoded(line))

ReadStdout(q, line) == IF line.type = "waveform" THEN q ELSE Append(q, Decoded(line))

\* main, line 196
WorkerBoot ==
    /\ walive = "running"
    /\ ~wboot
    /\ wboot' = TRUE
    /\ queue' = ReadStdout(queue, ReadyMsg)
    /\ UNCHANGED <<td, readervars, workervars, tracevars, threadvars, objvars, walive, wrecording, stdin, reader,
                   ghostvars>>

\* What Recorder.start does in an Idle recorder: it starts, or it raises
\* before (line 56) or after (lines 80-87) it has set _recording.
StartOutcomes == {"started", "Audio device not found", "Error opening InputStream"}

\* main, lines 218-236 and 241-243: the response to a request, given how
\* the recorder took it.
Response(req, rec, outcome, frames) ==
    CASE req.type = "start" ->
           IF rec THEN Msg("error", req.id, 0, "Already recording")
           ELSE IF outcome = "started" THEN Msg("started", req.id, 0, "")
           ELSE Msg("error", req.id, 0, outcome)
      [] req.type = "stop" -> Msg("stopped", req.id, IF rec THEN frames ELSE 0, "")
      [] OTHER -> Msg("canceled", req.id, 0, "")

\* Recorder._recording after the request
RecordingAfter(req, rec, outcome) ==
    IF req.type = "start" THEN rec \/ outcome # "Audio device not found" ELSE FALSE

\* main, lines 198-243: one turn of the protocol loop
WorkerHandle(outcome, frames) ==
    /\ walive = "running"
    /\ wboot
    /\ stdin # <<>>
    /\ stdin' = Tail(stdin)
    /\ queue' = ReadStdout(queue, Response(Head(stdin), wrecording, outcome, frames))
    /\ wrecording' = RecordingAfter(Head(stdin), wrecording, outcome)
    /\ UNCHANGED <<td, readervars, workervars, tracevars, threadvars, objvars, walive, wboot, reader, ghostvars>>

\* The worker process is killed from outside, or dies.
WorkerCrash ==
    /\ walive = "running"
    /\ walive' = "exited"
    /\ wboot' = FALSE
    /\ wrecording' = FALSE
    /\ stdin' = <<>>
    /\ session' = IF session = "started" /\ \A t \in Callers : tpc[t] = "idle"
                  THEN "killed" ELSE session
    /\ UNCHANGED <<td, readervars, workervars, tracevars, threadvars, objvars, reader, queue, spawned, noise, ncc,
                   observer, noop_cancels>>

\* Something in the worker process writes a line of its own to stdout.
WorkerNoise(line) ==
    /\ walive = "running"
    /\ noise < MaxNoise
    /\ noise' = noise + 1
    /\ queue' = ReadStdout(queue, line)
    /\ UNCHANGED <<td, readervars, workervars, tracevars, threadvars, objvars, walive, wboot, wrecording, stdin,
                   reader, spawned, ncc, session, observer, noop_cancels>>

\* _read_stdout, line 167: the process has exited, its stdout ends
ReaderEof ==
    /\ reader = "reading"
    /\ walive = "exited"
    /\ reader' = "done"
    /\ queue' = Append(queue, EofMsg)
    /\ UNCHANGED <<td, readervars, workervars, tracevars, threadvars, objvars, walive, wboot, wrecording, stdin,
                   ghostvars>>

ClientStep(t) ==
    \/ \E op \in Ops : ClientCall(t, op)
    \/ AcquireLock(t)
    \/ EnsureAlreadyRunning(t)
    \/ EnsureSpawn(t)
    \/ ReadySkip(t)
    \/ ReadyOk(t)
    \/ \E timeout \in BOOLEAN : ReadyRetry(t, timeout)
    \/ \E timeout \in BOOLEAN : ReadyGiveUp(t, timeout)
    \/ SendCommand(t)
    \/ SendFails(t)
    \/ WaitTimeout(t)
    \/ WaitSkip(t)
    \/ WaitMatch(t)
    \/ ReplyOk(t)
    \/ ReplyError(t)
    \/ CancelNotRunning(t)
    \/ CancelRunning(t)
    \/ \E obstacles \in ObstacleSets : StopClient(t, obstacles)

WorkerProcessStep ==
    \/ WorkerBoot
    \/ \E outcome \in StartOutcomes, frames \in FrameCounts : WorkerHandle(outcome, frames)
    \/ WorkerCrash
    \/ \E line \in NoiseLines : WorkerNoise(line)
    \/ ReaderEof

NextClient ==
    \/ \E t \in Callers : ClientStep(t)
    \/ WorkerProcessStep

SpecClient == Init /\ [][NextClient]_vars

\* ------------------------------------------------- teardown of a hung worker
\* The worker process stops responding: it is stopped by a signal, or sits
\* in a call of the audio driver that does not return.  It neither reads its
\* stdin nor acts on terminate; only kill ends it.
WorkerHang ==
    /\ walive = "running"
    /\ walive' = "hung"
    /\ UNCHANGED <<td, readervars, workervars, tracevars, threadvars, objvars, wboot, wrecording, stdin, reader,
                   queue, ghostvars>>

StopOps == {"ensure_running", "stop"}

\* The steps of a thread that calls ensure_running and stop only, the calls
\* in obstacles raising during its teardown.
StopStep(t, obstacles) ==
    \/ AcquireLock(t)
    \/ EnsureAlreadyRunning(t)
    \/ EnsureSpawn(t)
    \/ ReadyOk(t)
    \/ \E timeout \in BOOLEAN : ReadyRetry(t, timeout)
    \/ \E timeout \in BOOLEAN : ReadyGiveUp(t, timeout)
    \/ StopClient(t, obstacles)

NextStop ==
    \/ \E t \in Callers, op \in StopOps : ClientCall(t, op)
    \/ \E t \in Callers, obstacles \in ObstacleSets : StopStep(t, obstacles)
    \/ WorkerBoot
    \/ WorkerHang
    \/ WorkerCrash
    \/ ReaderEof

\* A thread that can take a step takes one: the calls of the client return
\* or run into their deadlines.  Nothing is assumed of the worker process,
\* and no call of the teardown is assumed to raise.
SpecStop == Init /\ [][NextStop]_vars /\ WF_vars(\E t \in Callers : StopStep(t, {}))

\* ------------------------------------------------------------------ claims
AllRecorderFields == <<recvars, driver>>

\* C1: a start that finds the recorder Recording raises "Already recording"
\* and leaves every Recorder field and the running stream as they were.
C1_StartWhileRecordingChangesNothing ==
    [][(rpc = "start" /\ recording /\ rpc' # rpc)
        => /\ rpc' = "idle"
           /\ ret' = Raised("start", "Already recording")
           /\ recording'
           /\ UNCHANGED AllRecorderFields]_vars

C1_Witness ==
    /\ rpc = "idle"
    /\ ret = Raised("start", "Already recording")
    /\ recording
    /\ stream # NoStream
    /\ Len(chunks) = 2
    /\ waveform_buffer # <<>>

\* C2: after any sequence of calls, a stop that finds the recorder Idle returns
\* (0, 0.0), writes no file and leaves the recorder Idle and untouched.
C2_StopWhileIdle ==
    [][(rpc = "stop" /\ ~recording /\ rpc' # rpc)
        => /\ rpc' = "idle"
           /\ ret' = Returned("stop", 0, 0)
           /\ files' = files
           /\ ~recording'
           /\ UNCHANGED AllRecorderFields]_vars

C2_Witness ==
    /\ rpc = "idle"
    /\ ncalls = 3
    /\ prev = "stop"
    /\ ret = Returned("stop", 0, 0)
    /\ \E p \in Paths : files[p] # NoFile

CancelReturned == rpc = "idle" /\ ret = Returned("cancel", 0, 0)

\* C3 as stated: cancel writes no file and leaves the recorder Idle, with no
\* stream attached and an empty chunk buffer.
C3_AsStated ==
    CancelReturned => ~recording /\ stream = NoStream /\ chunks = <<>>

\* C3 as amended: only stop's write (line 174) ever changes a file, so cancel
\* writes none; when cancel returns the recorder is Idle with no stream
\* attached or running and the chunk buffer holds nothing but, at most, the one
\* block of a callback invocation that had read _recording before cancel
\* flipped it; a stop that follows a cancel returns (0, 0.0).
C3_CancelLeavesIdleAndWritesNothing ==
    /\ [][files' # files => (rpc = "stop_abort" /\ rpc' = "idle")]_vars
    /\ [](CancelReturned
            => /\ ~recording
               /\ stream = NoStream
               /\ driver = NoStream
               /\ Len(chunks) <= 1
               /\ chunks # <<>> => chunks = <<fed[Len(fed)]>>)
    /\ []((rpc = "idle" /\ ret.op = "stop" /\ prev = "cancel")
            => ret = Returned("stop", 0, 0))

C3_Witness ==
    /\ rpc = "idle"
    /\ ret = Returned("stop", 0, 0)
    /\ prev = "cancel"
    /\ Len(fed) = 2
    /\ \A p \in Paths : files[p] = NoFile

StopReturns == rpc = "stop_abort" /\ rpc' = "idle"

\* what stop must report and write for the chunks cs
StopOutcome(cs) ==
    LET audio == Concat(cs)
    IN /\ ret'.frames = Len(audio)
       /\ ret'.peak = SeqMax([i \in 1..Len(audio) |-> Abs(audio[i])])
       /\ ret'.status = "ok"
       /\ IF cs = <<>>
          THEN files' = files
          ELSE /\ \A p \in Paths \ {rargs.wav_path} : files'[p] = files[p]
               /\ files'[rargs.wav_path] # NoFile
               /\ Len(files'[rargs.wav_path][1].data) = Len(audio)
               /\ \A i \in 1..Len(audio) :
                     files'[rargs.wav_path][1].data[i] = ToInt16(audio[i])

HasInputDevice(name, devs) ==
    \E i \in 1..Len(devs) : devs[i].name = name /\ devs[i].max_input_channels > 0

\* C5: a start on an Idle recorder that names a device no input-capable device
\* bears raises the device-not-found error, opens no stream and leaves the
\* recorder Idle and untouched.
C5_UnknownDeviceFails ==
    [][(/\ rpc = "start"
        /\ ~recording
        /\ Truthy(rargs.device_name)
        /\ ~HasInputDevice(rargs.device_name, rargs.devices)
        /\ rpc' # rpc)
        => /\ rpc' = "idle"
           /\ ret' = Raised("start", "Audio device not found")
           /\ ~recording'
           /\ driver' = NoStream
           /\ UNCHANGED AllRecorderFields]_vars

C5_Witness ==
    /\ rpc = "idle"
    /\ prev = "Audio device not found"
    /\ ret = Returned("start", 0, 0)
    /\ recording
    /\ stream.device = 1

\* C6: every waveform event written carries exactly 24 values, each within
\* [0.0, 1.0], whatever was pending and whatever the earlier ticks were.
C6_WaveformValuesBounded ==
    last_event # <<>>
        => /\ Len(last_event[1].values) = WAVEFORM_BARS
           /\ \A b \in 1..Len(last_event[1].values) :
                 last_event[1].values[b] >= 0 /\ last_event[1].values[b] <= UNIT

\* a second tick of the session, on fewer than 24 pending samples, that was
\* clamped at 1.0
C6_Witness ==
    /\ last_event # <<>>
    /\ Len(peak_history) = 2
    /\ last_event[1].values[1] = UNIT
    /\ last_event[1].values[WAVEFORM_BARS] = 0
    /\ last_event[1].raw_peak = 1000

\* ------------------------------------------------------------ client claims
\* A thread is inside `with self._lock`.
InCritical(t) == tpc[t] \notin {"idle", "lock"}

\* A thread has written a command and waits for its response.
InFlight(t) == tpc[t] \in {"wait", "reply"}

\* C7: the client operations are mutually exclusive.  At most one thread is
\* inside its critical section and it is the holder of the lock; at most one
\* command is in flight; every step that changes the worker handle, the
\* queue reference or the request counter is a step of that one thread.
C7_OperationsMutuallyExclusive ==
    /\ [](Cardinality({t \in Callers : InCritical(t)}) <= 1)
    /\ [](\A t \in Callers : InCritical(t) => lock = t)
    /\ [](Cardinality({t \in Callers : InFlight(t)}) <= 1)
    /\ [][<<proc, messages, next_id>>' # <<proc, messages, next_id>> =>
            \E t \in Callers : /\ InCritical(t)
                                /\ lock = t
                                /\ \A u \in Callers \ {t} : ~InCritical(u) /\ tpc'[u] = tpc[u]]_vars

\* A second start_recording is held at the lock while the first has its
\* command in flight.
C7_Witness ==
    /\ top[1] = "start_recording" /\ tpc[1] = "wait"
    /\ top[2] = "start_recording" /\ tpc[2] = "lock"

\* No worker process is running: there is no handle, or its process has exited.
NoWorkerRunning == proc = NoProc \/ walive # "running"

\* A call that follows a kill of the worker between a successful
\* start_recording and the next call has returned.
CrashObserved(t) ==
    /\ session = "observing"
    /\ observer = t
    /\ tpc[t] = "idle"
    /\ top[t] = "stop_recording"

\* C8 as the specification states it: after the worker was killed between a
\* successful start_recording and stop_recording, the stop_recording does not
\* return a normal result, it raises an error.
C8_AsStated == \A t \in Callers : CrashObserved(t) => tresult[t].kind = "raised"

\* The worker takes a cancel request from its stdin.
HandlesCancel ==
    /\ stdin # <<>>
    /\ Head(stdin).type = "cancel"
    /\ stdin' = Tail(stdin)
    /\ UNCHANGED <<proc, walive>>

\* C9: cancel_recording that finds no worker running returns without error
\* and changes nothing: no process is spawned, nothing is written, no
\* request id is consumed, the handle and the queue stay as they are.  A
\* cancel that reaches a worker in which nothing is recording leaves it so.
C9_CancelWithoutWorkerIsNoOp ==
    /\ [][\A t \in Callers :
            (top[t] = "cancel_recording" /\ tpc[t] = "cancel_check" /\ NoWorkerRunning
                /\ tpc'[t] # tpc[t])
            => /\ tpc'[t] = "idle"
               /\ tresult'[t] = Ok
               /\ UNCHANGED <<write_lock, proc, messages, next_id, procvars, spawned>>]_vars
    /\ [][(HandlesCancel /\ ~wrecording) =>
            /\ ~wrecording'
            /\ queue' = Append(queue, Msg("canceled", Head(stdin).id, 0, ""))]_vars

\* Two cancel_recording calls in a row found no worker and returned.
C9_Witness ==
    /\ noop_cancels = 2
    /\ \E t \in Callers : top[t] = "cancel_recording" /\ tpc[t] = "idle" /\ tresult[t] = Ok

\* C10: the message that completes a command with request id N is the error
\* synthesized from eof, or has one of the command's terminal types and id N;
\* the outcome of the call is read from that message.
C10_ResponseMatchesRequest ==
    /\ [](\A t \in Callers : tpc[t] = "reply" =>
             \/ tmsg[t] = EofError
             \/ /\ req_id[t] # NoId
                /\ tmsg[t].id = req_id[t]
                /\ tmsg[t].type \in Terminal(top[t]))
    /\ [][\A t \in Callers : (tpc[t] = "reply" /\ tpc'[t] = "idle") =>
             /\ (tresult'[t].kind = "raised") = (tmsg[t].type = "error")
             /\ tmsg[t].type = "error" => tresult'[t].error = tmsg[t].error
             /\ tmsg[t].type = "stopped" => tresult'[t] = Frames(tmsg[t].frames)]_vars

\* A command is completed by its own response after the late response to an
\* earlier command, which had timed out, was skipped.
C10_Witness ==
    \E t \in Callers :
        /\ tpc[t] = "reply"
        /\ tmsg[t].type # "error"
        /\ skipped[t].id # NoId
        /\ skipped[t].id < req_id[t]

\* A waiting command takes the eof sentinel from the queue.
TakesEof(t) ==
    /\ tpc[t] = "wait"
    /\ queue # <<>>
    /\ Head(queue).type = "eof"
    /\ queue' = Tail(queue)
    /\ messages' = messages

C12_AsStated == \A t \in Callers : tpc[t] = "lock" => ENABLED ClientStep(t)

\* The readiness wait of thread t ends without ready: by its deadline, an
\* error message or eof.
ReadyWaitFails(t) ==
    /\ tpc[t] = "ready_wait"
    /\ tpc'[t] # "ready_wait" \/ spawn_attempt'[t] # spawn_attempt[t]
    /\ ~ready_seen'

\* C13: one _ensure_running_locked that finds no live worker spawns at most
\* two processes: one on entry, one more after the first readiness wait
\* failed, none after the second failed.  At every spawn all handles spawned
\* before have been torn down.  When the second wait fails the handle is torn
\* down and dropped and the failure is raised (to the caller, or into the
\* retry of start_recording).
C13_EnsureRunningSpawnsAtMostTwice ==
    /\ [][spawned' # spawned =>
            /\ spawned' = spawned + 1
            /\ teardowns' = spawned
            /\ \E t \in Callers :
                   \/ tpc[t] = "ensure" /\ tpc'[t] = "ready_wait" /\ spawn_attempt'[t] = 0
                   \/ /\ ReadyWaitFails(t)
                      /\ spawn_attempt[t] = 0
                      /\ spawn_attempt'[t] = 1
                      /\ tpc'[t] = "ready_wait"]_vars
    /\ [][\A t \in Callers : (ReadyWaitFails(t) /\ spawn_attempt[t] = 1) =>
            /\ spawned' = spawned
            /\ proc' = NoProc
            /\ teardowns' = spawned
            /\ \/ tpc'[t] = "idle" /\ tresult'[t].kind = "raised"
               \/ top[t] = "start_recording" /\ attempt[t] = 0 /\ tpc'[t] = "ensure"]_vars

\* ensure_running has raised after both of its workers failed to become
\* ready; both were torn down and no handle is left.
C13_Witness ==
    \E t \in Callers :
        /\ top[t] = "ensure_running"
        /\ tpc[t] = "idle"
        /\ tresult[t].kind = "raised"
        /\ spawned = 2
        /\ teardowns = 2
        /\ proc = NoProc

\* An attempt of start_recording by thread t fails: the except clause of
\* lines 85-90 sends it back into the loop or lets the error out.
StartAttemptFails(t) ==
    /\ top[t] = "start_recording"
    /\ tpc[t] \in {"ensure", "ready_wait", "send", "wait", "reply"}
    /\ \/ tpc'[t] = "ensure" /\ attempt'[t] # attempt[t]
       \/ tpc'[t] = "idle" /\ tresult'[t].kind = "raised"

\* The errors the second attempt of start_recording can end with, from where
\* it stands: the readiness wait, the write, the wait for the response, the
\* response itself.
SecondAttemptErrors(t) ==
    CASE tpc[t] = "ready_wait" ->
           {"Audio worker did not become ready in time"} \cup
           (IF queue = <<>> THEN {} ELSE {ReadyErrorText(Synthesized(Head(queue)))})
      [] tpc[t] = "send" ->
           {"Timed out waiting for audio worker write lock", "[Errno 32] Broken pipe"}
      [] tpc[t] = "wait" -> {TimeoutMessage(top[t])}
      [] tpc[t] = "reply" -> {tmsg[t].error, FailureMessage(top[t])} \ {""}
      [] OTHER -> {}

\* C14: start_recording runs its sequence at most twice (attempt is 0 or 1 and
\* only a failed first attempt raises it); every failed attempt leaves the
\* client without a handle, all spawned workers torn down; the command of the
\* second attempt carries an id no command carried before; only the second
\* attempt's failure reaches the caller, with the error of that attempt.
C14_StartRecordingRetriesOnce ==
    /\ [](\A t \in Callers : attempt[t] \in {0, 1})
    /\ [][\A t \in Callers : StartAttemptFails(t) =>
            /\ proc' = NoProc
            /\ teardowns' = spawned'
            /\ IF attempt[t] = 0
               THEN tpc'[t] = "ensure" /\ attempt'[t] = 1 /\ lock' = t
               ELSE /\ tpc'[t] = "idle"
                    /\ tresult'[t].error \in SecondAttemptErrors(t)]_vars
    /\ [][\A t \in Callers : attempt'[t] = 1 /\ attempt[t] = 0 => StartAttemptFails(t)]_vars
    /\ [][\A t \in Callers :
            (top[t] = "start_recording" /\ attempt[t] = 1 /\ Len(sent') > Len(sent)) =>
                \A i \in 1..Len(sent) : sent[i] < sent'[Len(sent')]]_vars

\* start_recording has raised after two attempts that each wrote a command;
\* no handle is left.
C14_Witness ==
    \E t \in Callers :
        /\ top[t] = "start_recording"
        /\ tpc[t] = "idle"
        /\ tresult[t].kind = "raised"
        /\ Len(sent) = 2
        /\ spawned = 2
        /\ proc = NoProc

\* C20: the ids of the commands this client has written, in the order of
\* writing, are strictly increasing, and the counter is above all of them:
\* no id is written twice, whatever failed or restarted in between.
C20_RequestIdsStrictlyIncrease ==
    /\ \A i, j \in 1..Len(sent) : i < j => sent[i] < sent[j]
    /\ \A i \in 1..Len(sent) : sent[i] < next_id

\* The second attempt of start_recording has written its command to the
\* second worker, after the first attempt wrote one to the first worker.
C20_Witness ==
    \E t \in Callers :
        /\ top[t] = "start_recording"
        /\ attempt[t] = 1
        /\ tpc[t] = "wait"
        /\ Len(sent) = 2
        /\ spawned = 2

\* C19: a handle whose worker has not yet been seen ready exists only while
\* the thread holding the lock is in the readiness wait; a thread about to
\* write a command holds a handle seen ready, and so does every thread that
\* is_running reports a live worker to; every command is written to a worker
\* seen ready.  In the worker, main answers requests only after it has
\* written ready, and ensure_running returns only by taking ready.
C19_NoCommandBeforeReady ==
    /\ [](proc # NoProc /\ ~ready_seen =>
             \E t \in Callers : tpc[t] = "ready_wait" /\ lock = t)
    /\ [](\A t \in Callers : tpc[t] = "send" => proc # NoProc /\ ready_seen)
    /\ [](\A t \in Callers : tpc[t] \in {"ensure", "cancel_check"} /\ IsRunning => ready_seen)
    /\ [][Len(sent') > Len(sent) => ready_seen /\ proc # NoProc /\ proc' = proc]_vars
    /\ [][wboot' /\ ~wboot => queue' = Append(queue, ReadyMsg)]_vars
    /\ [][stdin # <<>> /\ stdin' = Tail(stdin) /\ walive' = "running" => wboot]_vars
    /\ [][\A t \in Callers : tpc[t] = "ready_wait" /\ tpc'[t] \in {"send", "idle"}
                                /\ tresult'[t].kind # "raised" =>
             queue # <<>> /\ Head(queue) = ReadyMsg /\ queue' = Tail(queue)]_vars

\* cancel_recording found the worker an earlier call had started running and
\* has written its command to it.
C19_Witness ==
    \E t \in Callers :
        /\ top[t] = "cancel_recording"
        /\ tpc[t] = "wait"
        /\ ready_seen
        /\ Len(stdin) = 1
        /\ Head(stdin).id = req_id[t]

\* C18, as stated: every stop that has entered _stop_locked returns; it
\* returns without raising, and the client then holds no handle.
C18_AsStated ==
    /\ \A t \in Callers : (top[t] = "stop" /\ tpc[t] = "teardown") ~> (tpc[t] = "idle")
    /\ [][\A t \in Callers : (tpc[t] = "teardown" /\ tpc'[t] = "idle") =>
            tresult'[t] = Ok /\ proc' = NoProc]_vars

\* ----------------------------------------------------- protocol loop claims
IsRequest(r) == r.type \in {"start", "stop", "cancel"}
IsResponse(m) == m.type \in {"started", "stopped", "canceled", "error"}
\* The requests read and the responses written so far, in order.
Requests == SelectSeq(seen, IsRequest)
Responses == SelectSeq(out, IsResponse)

\* C15: the responses written are, in order, one for each request read
\* (except the request being handled, which has none yet): the i-th response
\* carries the id of the i-th request and is its terminal message or an
\* error; a line is read only when every request read before has its
\* response; a step writes at most one message.
C15_OneResponsePerRequestInOrder ==
    /\ [](Len(Responses) = Len(Requests) - (IF IsRequest(mreq) THEN 1 ELSE 0))
    /\ [](\A i \in 1..Len(Responses) :
             /\ Responses[i].id = Requests[i].id
             /\ Responses[i].type \in {TerminalOf(Requests[i].type), "error"})
    /\ [](\A i, j \in 1..Len(Requests) : i # j => Requests[i].id # Requests[j].id)
    /\ [][Len(seen') > Len(seen) => Len(Responses) = Len(Requests)]_vars
    /\ [][Len(out') <= Len(out) + 1]_vars

\* Two start requests have been read and answered in order: started for the
\* first, the error "Already recording" with the second's id for the second.
C15_Witness ==
    /\ Len(Requests) = 2
    /\ Responses = <<Out("started", Requests[1].id, ""),
                     Out("error", Requests[2].id, "Already recording")>>

\* C16, as stated: the loop leaves "running" only by answering shutdown or
\* at the end of input, and then with exit code 0; a line passed over and a
\* request whose handler raised leave it running.
C16_AsStated ==
    /\ [][mstatus = "running" /\ mstatus' # "running" =>
            /\ mstatus' = "exit 0"
            /\ \/ mreq.type = "shutdown"
               \/ seen' = seen /\ out' = out]_vars
    /\ [][(mstatus = "running" /\ Len(out') > Len(out) /\ out'[Len(out')].type = "error") =>
            mstatus' = "running" /\ out'[Len(out')].id = seen'[Len(seen')].id]_vars

\* C17: the step that ends the handling of shutdown finds the recorder Idle
\* with its stream closed, writes shutdown_ack and ends main with exit code
\* 0; no file is written while shutdown is handled; once main has ended
\* nothing in the worker changes: no line is read, no message written.
C17_ShutdownCancelsAcksAndExits ==
    /\ [][mreq.type = "shutdown" /\ mreq' # mreq =>
            /\ ~recording' /\ stream' = NoStream /\ driver' = NoStream
            /\ ret = Returned("cancel", 0, 0)
            /\ out' = Append(out, Out("shutdown_ack", NoId, ""))
            /\ mstatus' = "exit 0"]_vars
    /\ [][mreq.type = "shutdown" => files' = files]_vars
    /\ [][mstatus # "running" => UNCHANGED workervars]_vars
    /\ [](mstatus = "exit 0" /\ seen # <<>> /\ seen[Len(seen)].type = "shutdown" =>
             out[Len(out)].type = "shutdown_ack")

\* shutdown arrived during a recording with chunks captured: main has ended
\* after started and shutdown_ack, the recorder is Idle, no file exists.
C17_Witness ==
    /\ mstatus = "exit 0"
    /\ Len(out) >= 3
    /\ out[Len(out)].type = "shutdown_ack"
    /\ out[Len(out) - 1].type = "started"
    /\ fed # <<>>
    /\ ~recording
    /\ \A p \in Paths : files[p] = NoFile

\* ------------------------------------------------- _stop_locked step by step
\* The run goes on to position pc, having made the calls in calls, the last
\* of which raised (something other than TimeoutExpired) if raises.
TdGoes(pc, calls, raises) ==
    [td EXCEPT !.pc = pc, !.log = td.log \o calls, !.raised = td.raised \/ raises]

TdFrame == UNCHANGED <<workervars, clientvars, readervars>>

\* lines 267-270: the handle is taken out of self._proc; without a handle
\* there is nothing to do.  The process behind the handle may have exited
\* already; the reader thread may have ended (by eof, or by an exception).
TdEnter(handle, force, alive, reading) ==
    /\ td.pc = "none"
    /\ td' = [pc |-> IF handle THEN "stdin" ELSE "done",
              force |-> force,
              alive |-> handle /\ alive,
              reader |-> IF handle /\ reading THEN "reading" ELSE "ended",
              raised |-> FALSE,
              log |-> <<>>]
    /\ TdFrame

\* The process exits: by itself, at the end of its input, or on terminate.
TdProcExit ==
    /\ td.pc \notin {"none", "done"}
    /\ td.alive
    /\ td' = [td EXCEPT !.alive = FALSE]
    /\ TdFrame

\* lines 273-277; an exception of the close is passed over
TdCloseStdin ==
    /\ td.pc = "stdin"
    /\ td' = TdGoes("grace", <<"stdin.close">>, FALSE)
    /\ TdFrame

\* lines 280-284: the wait for a natural exit, unless forced
TdGrace ==
    /\ td.pc = "grace"
    /\ td' = TdGoes("terminate", IF ~td.force /\ td.alive THEN <<"wait(1)">> ELSE <<>>, FALSE)
    /\ TdFrame

\* terminate sent without the poll of line 286
TdTerminate_Unpolled(raises) ==
    /\ td.pc = "terminate"
    /\ td' = TdGoes(IF raises THEN "handler" ELSE "stdout", <<"terminate">>, raises)
    /\ TdFrame

\* lines 286-287; an exception of terminate leads to line 305
TdTerminate(raises) ==
    /\ td.pc = "terminate"
    /\ td' = IF td.alive
             THEN TdGoes(IF raises THEN "handler" ELSE "stdout", <<"terminate">>, raises)
             ELSE TdGoes("kill", <<>>, FALSE)
    /\ TdFrame

\* The reader thread is inside its read of the stream (line 150) for as long
\* as the process lives, and a close of the stream waits for that read.
TdCloseWaits == td.alive /\ td.reader = "reading"

\* lines 289-293; an exception of the close is passed over
TdCloseStdout ==
    /\ td.pc = "stdout"
    /\ ~TdCloseWaits
    /\ td' = TdGoes("wait", <<"stdout.close">>, FALSE)
    /\ TdFrame

\* lines 294-297: returns when the process has exited, or after 2 s
TdWait ==
    /\ td.pc = "wait"
    /\ td' = TdGoes("kill", <<"wait(2)">>, FALSE)
    /\ TdFrame

\* lines 299-304; an exception of kill leads to line 305.  A process that
\* was sent SIGKILL is gone.
TdKill(raises) ==
    /\ td.pc = "kill"
    /\ td' = IF ~td.alive THEN TdGoes("finally", <<>>, FALSE)
             ELSE IF raises THEN TdGoes("handler", <<"kill">>, TRUE)
             ELSE [TdGoes("finally", <<"kill", "wait(1)">>, FALSE) EXCEPT !.alive = FALSE]
    /\ TdFrame

\* lines 305-310: the except clause kills what is still alive
TdHandler(raises) ==
    /\ td.pc = "handler"
    /\ td' = IF ~td.alive THEN TdGoes("finally", <<>>, FALSE)
             ELSE [TdGoes("finally", <<"kill">>, FALSE) EXCEPT !.alive = raises]
    /\ TdFrame

\* lines 311-316; an exception of the close is passed over
TdFinally ==
    /\ td.pc = "finally"
    /\ ~TdCloseWaits
    /\ td' = TdGoes("done", <<"stdout.close">>, FALSE)
    /\ TdFrame

NextTeardown ==
    \/ \E handle, force, alive, reading \in BOOLEAN : TdEnter(handle, force, alive, reading)
    \/ TdProcExit
    \/ TdCloseStdin
    \/ TdGrace
    \/ \E raises \in BOOLEAN : TdTerminate(raises)
    \/ TdCloseStdout
    \/ TdWait
    \/ \E raises \in BOOLEAN : TdKill(raises)
    \/ \E raises \in BOOLEAN : TdHandler(raises)
    \/ TdFinally

SpecTeardown == Init /\ [][NextTeardown]_vars

\* ------------------------------------------------------ client claims, cont.
\* The last call of thread u was a stop_recording or cancel_recording that
\* gave up at its response deadline.
TimedOut(u) ==
    /\ tpc[u] = "idle"
    /\ top[u] \in {"stop_recording", "cancel_recording"}
    /\ tresult[u] = Error(TimeoutMessage(top[u]))

\* C21, as stated: the first _ensure_running_locked after a stop_recording
\* or cancel_recording that timed out does not keep the worker that command
\* was sent to: it leaves with a freshly spawned one.
C21_AsStated ==
    [][\A t, u \in Callers :
          (t # u /\ TimedOut(u) /\ tpc[t] = "ensure" /\ proc # NoProc /\ tpc'[t] # "ensure") =>
              spawned' = spawned + 1 /\ proc' # proc]_vars

\* C22: the handle, when there is one, is the process spawned last; the
\* processes spawned and not torn down are that one or none; at every spawn
\* all processes spawned before have been torn down.
C22_AtMostOneWorkerHandle ==
    /\ [](proc \in {NoProc, spawned})
    /\ [](spawned - teardowns = (IF proc = NoProc THEN 0 ELSE 1))
    /\ [][spawned' # spawned =>
            spawned' = spawned + 1 /\ teardowns' = spawned /\ proc' = spawned']_vars

\* The second worker is running behind the handle, spawned by a call that
\* found no live worker; the first has been torn down.
C22_Witness ==
    /\ spawned = 2
    /\ teardowns = 1
    /\ proc = 2
    /\ walive = "running"
    /\ \E t \in Callers : tpc[t] = "ready_wait" /\ spawn_attempt[t] = 0

\* The calls _stop_locked has made include c.
TdHas(c) == \E i \in 1..Len(td.log) : td.log[i] = c
\* The step makes the call c.
TdCalls(c) == \E i \in (Len(td.log) + 1)..Len(td'.log) : td'.log[i] = c

\* What holds of the order of the calls whether or not one of them raises:
\* stdin is closed first; the wait for a natural exit is made only when not
\* forced; terminate is sent only to a process found alive, before any
\* other signal, and the close of stdout that goes with it comes right after
\* it; kill is sent only to a process found alive, after terminate.
TdOrder ==
    /\ [](td.log # <<>> => td.log[1] = "stdin.close")
    /\ [](\A i \in 1..Len(td.log) :
             (td.log[i] = "wait(1)" /\ td.log[i - 1] # "kill") => ~td.force /\ i = 2)
    /\ [][TdCalls("terminate") =>
            /\ td.alive
            /\ td.log \in {<<"stdin.close">>, <<"stdin.close", "wait(1)">>}]_vars
    /\ [][(TdCalls("stdout.close") /\ td'.pc # "done") =>
            td.log[Len(td.log)] = "terminate"]_vars
    /\ [][TdCalls("kill") => td.alive /\ TdHas("terminate")]_vars

\* C23, as stated: kill is sent only after terminate and the wait that
\* follows it.
C23_AsStated ==
    /\ TdOrder
    /\ [][TdCalls("kill") => TdHas("wait(2)")]_vars

\* C23: the order above, and kill is sent only after terminate and the wait
\* that follows it unless terminate or kill raised: then the except clause
\* sends kill at once.
C23_TeardownEscalation ==
    /\ TdOrder
    /\ [][TdCalls("kill") => TdHas("wait(2)") \/ td'.raised]_vars

\* A graceful teardown of a process that ignored the end of its input and
\* terminate, its reader thread ended, went through every stage, no call
\* raising.
C23_Witness ==
    /\ td.pc = "done"
    /\ td.reader = "ended"
    /\ ~td.raised
    /\ td.log = <<"stdin.close", "wait(1)", "terminate", "stdout.close", "wait(2)", "kill",
                  "wait(1)", "stdout.close">>

\* ------------------------------------------------------ recorder claims, cont.
\* C24: the step that detaches the stream leaves the recorder Idle; the
\* driver stream is aborted and closed only when the recorder is Idle and
\* the stream detached; a callback invocation that begins while the recorder
\* is Idle does not get past its test of _recording, and nothing is appended
\* to the chunk buffer or the pending waveform buffer and no waveform event
\* is written except by an invocation past that test; when stop or cancel
\* returns the recorder is Idle with no stream attached.
C24_IdleBeforeStreamTeardown ==
    /\ [][stream # NoStream /\ stream' = NoStream => ~recording']_vars
    /\ [][driver # NoStream /\ driver' = NoStream => ~recording /\ stream' = NoStream]_vars
    /\ [][~recording /\ cpc = "none" => cpc' = "none"]_vars
    /\ [][cpc = "none" =>
            /\ Len(chunks') <= Len(chunks)
            /\ Len(waveform_buffer') <= Len(waveform_buffer)
            /\ last_event' = last_event]_vars
    /\ [][(rpc \in {"stop_abort", "cancel_abort"} /\ rpc' = "idle") =>
            (~recording' /\ stream' = NoStream)]_vars

\* stop has flipped the state and taken the captured chunks; the driver
\* stream is still running and no callback invocation is in progress: the
\* next one begins after the flip.
C24_Witness ==
    /\ rpc = "stop_abort"
    /\ ~recording
    /\ driver # NoStream
    /\ cpc = "none"
    /\ lchunks # <<>>
    /\ chunks = <<>>

\* ------------------------------------------------------- the reader threads
RdFrame == UNCHANGED <<workervars, clientvars, td>>

\* What a worker process writes to its stdout in its life: a waveform event
\* before a response, a line that is not JSON before ready, a line that is
\* JSON but not an object before a response.
WorkerOutputs ==
    {<<Msg("waveform", NoId, 0, ""), Msg("stopped", 1, 4, "")>>,
     <<Msg("text", NoId, 0, ""), ReadyMsg>>,
     <<Msg("nonobject", NoId, 0, ""), Msg("started", 1, 0, "")>>}

\* A queued message with the instance whose stdout it came from.
Tagged(k, s) == [i \in 1..Len(s) |-> [src |-> k, msg |-> s[i]]]

\* the queue every reader would use if it looked it up in self._messages
RdQueueOf_Current(k) == rd_messages

\* line 235: the reader thread gets its queue as an argument
RdQueueOf(k) == k

\* set_waveform_callback, lines 36-38
RdSetCallback(cb) ==
    /\ cb # rd_cb
    /\ rd_cb' = cb
    /\ UNCHANGED <<rd_n, rd_proc, rd_messages, rd_script, rd_written, rd_pos, rd_alive, rd_state,
                   rd_queue, rd_got, rd_calls>>
    /\ RdFrame

\* _ensure_running_locked, lines 225-240, after the _stop_locked of line 213
\* or 257: a process, a queue and a reader thread bound to both are created,
\* then self._proc and self._messages are assigned
RdSpawn(script) ==
    /\ rd_proc = NoProc
    /\ rd_n < MaxSpawns
    /\ rd_n' = rd_n + 1
    /\ rd_proc' = rd_n'
    /\ rd_messages' = rd_n'
    /\ rd_script' = Append(rd_script, script)
    /\ rd_written' = Append(rd_written, 0)
    /\ rd_pos' = Append(rd_pos, 0)
    /\ rd_alive' = Append(rd_alive, TRUE)
    /\ rd_state' = Append(rd_state, "reading")
    /\ rd_queue' = Append(rd_queue, <<>>)
    /\ rd_calls' = Append(rd_calls, <<>>)
    /\ UNCHANGED <<rd_cb, rd_got>>
    /\ RdFrame

\* the worker process writes its lines, which wait in the pipe for the reader
RdWrite(k) ==
    /\ rd_alive[k]
    /\ rd_written[k] < Len(rd_script[k])
    /\ rd_written' = [rd_written EXCEPT ![k] = Len(rd_script[k])]
    /\ UNCHANGED <<rd_n, rd_proc, rd_messages, rd_cb, rd_script, rd_pos, rd_alive, rd_state,
                   rd_queue, rd_got, rd_calls>>
    /\ RdFrame

\* the worker process ends by itself; the client keeps its handle
RdExit(k) ==
    /\ rd_alive[k]
    /\ rd_alive' = [rd_alive EXCEPT ![k] = FALSE]
    /\ UNCHANGED <<rd_n, rd_proc, rd_messages, rd_cb, rd_script, rd_written, rd_pos, rd_state,
                   rd_queue, rd_got, rd_calls>>
    /\ RdFrame

\* _stop_locked, lines 267-268 and 290-316: the handle is dropped and the
\* process ended; self._messages is left as it is
RdTeardown ==
    /\ rd_proc # NoProc
    /\ rd_proc' = NoProc
    /\ rd_alive' = [rd_alive EXCEPT ![rd_proc] = FALSE]
    /\ UNCHANGED <<rd_n, rd_messages, rd_cb, rd_script, rd_written, rd_pos, rd_state, rd_queue,
                   rd_got, rd_calls>>
    /\ RdFrame

\* _stop_locked, lines 296-300 and 311-316: stdout was closed under the
\* reader, whose next read raises; the thread ends without its sentinel
RdClosed(k) ==
    /\ k <= rd_n
    /\ k # rd_proc
    /\ ~rd_alive[k]
    /\ rd_state[k] = "reading"
    /\ rd_state' = [rd_state EXCEPT ![k] = "dead"]
    /\ UNCHANGED <<rd_n, rd_proc, rd_messages, rd_cb, rd_script, rd_written, rd_pos, rd_alive,
                   rd_queue, rd_got, rd_calls>>
    /\ RdFrame

\* _read_stdout, lines 150-166, for one line: a waveform event goes to the
\* callback if one is set, whose exception is dropped (lines 159-162); a line
\* that is JSON but not an object has no get (line 156) and the
\* AttributeError, which line 165 does not catch, ends the thread; any other
\* line is put on the reader's queue
RdRead(k, raises) ==
    /\ rd_state[k] = "reading"
    /\ rd_pos[k] < rd_written[k]
    /\ rd_pos' = [rd_pos EXCEPT ![k] = @ + 1]
    /\ LET line == rd_script[k][rd_pos'[k]]
       IN  CASE line.type = "waveform" ->
                  /\ rd_calls' = [rd_calls EXCEPT ![k] =
                                     Append(@, IF ~rd_cb THEN "dropped"
                                               ELSE IF raises THEN "raised" ELSE "returned")]
                  /\ ~rd_cb => ~raises
                  /\ rd_queue' = [rd_queue EXCEPT ![RdQueueOf(k)] =
                                     @ \o Tagged(k, ReadStdout(<<>>, line))]
                  /\ UNCHANGED rd_state
             [] line.type = "nonobject" ->
                  /\ ~raises
                  /\ rd_state' = [rd_state EXCEPT ![k] = "dead"]
                  /\ UNCHANGED <<rd_queue, rd_calls>>
             [] OTHER ->
                  /\ ~raises
                  /\ rd_queue' = [rd_queue EXCEPT ![RdQueueOf(k)] =
                                     @ \o Tagged(k, ReadStdout(<<>>, line))]
                  /\ UNCHANGED <<rd_state, rd_calls>>
    /\ UNCHANGED <<rd_n, rd_proc, rd_messages, rd_cb, rd_script, rd_written, rd_alive, rd_got>>
    /\ RdFrame

\* _read_stdout, line 167: stdout has ended
RdEof(k) ==
    /\ rd_state[k] = "reading"
    /\ ~rd_alive[k]
    /\ rd_pos[k] = rd_written[k]
    /\ rd_state' = [rd_state EXCEPT ![k] = "done"]
    /\ rd_queue' = [rd_queue EXCEPT ![RdQueueOf(k)] = @ \o Tagged(k, <<EofMsg>>)]
    /\ UNCHANGED <<rd_n, rd_proc, rd_messages, rd_cb, rd_script, rd_written, rd_pos, rd_alive,
                   rd_got, rd_calls>>
    /\ RdFrame

\* _wait_for_locked, line 199, in the readiness wait (line 242) or in a
\* command (lines 76, 107, 139), all of which run with a handle held: the
\* next message of self._messages is taken
RdWait ==
    /\ rd_proc # NoProc
    /\ rd_queue[rd_messages] # <<>>
    /\ rd_got' = Append(rd_got, [src |-> Head(rd_queue[rd_messages]).src,
                                 msg |-> Head(rd_queue[rd_messages]).msg,
                                 for |-> rd_proc])
    /\ rd_queue' = [rd_queue EXCEPT ![rd_messages] = Tail(@)]
    /\ UNCHANGED <<rd_n, rd_proc, rd_messages, rd_cb, rd_script, rd_written, rd_pos, rd_alive,
                   rd_state, rd_calls>>
    /\ RdFrame

NextReader ==
    \/ \E cb \in BOOLEAN : RdSetCallback(cb)
    \/ \E script \in WorkerOutputs : RdSpawn(script)
    \/ \E k \in 1..rd_n : RdWrite(k)
    \/ \E k \in 1..rd_n : RdExit(k)
    \/ RdTeardown
    \/ \E k \in 1..rd_n : RdClosed(k)
    \/ \E k \in 1..rd_n, raises \in BOOLEAN : RdRead(k, raises)
    \/ \E k \in 1..rd_n : RdEof(k)
    \/ RdWait

SpecReader == Init /\ [][NextReader]_vars

\* ---------------------------------------------------- reader claims
\* the lines the reader of instance k has read
RdLinesRead(k) == SubSeq(rd_script[k], 1, rd_pos[k])

\* what _read_stdout has to put on its queue for the lines s
RECURSIVE RdExpected(_)
RdExpected(s) ==
    IF s = <<>> THEN <<>>
    ELSE IF Head(s).type \in {"waveform", "nonobject"} THEN RdExpected(Tail(s))
    ELSE <<Decoded(Head(s))>> \o RdExpected(Tail(s))

\* what was taken from the queue of instance k, oldest first
RECURSIVE RdTaken(_, _)
RdTaken(got, k) ==
    IF got = <<>> THEN <<>>
    ELSE IF Head(got).for = k THEN <<Head(got).msg>> \o RdTaken(Tail(got), k)
    ELSE RdTaken(Tail(got), k)

RdMsgs(q) == [i \in 1..Len(q) |-> q[i].msg]

RdWaveformsRead(k) ==
    Cardinality({i \in 1..rd_pos[k] : rd_script[k][i].type = "waveform"})

\* C25: no waveform event is ever on a queue or taken from one; every
\* waveform event a reader has read went to the callback or, with none set,
\* was dropped; the step in which the callback raises leaves the reader
\* reading, and so does every step in which a callback is called; what was
\* taken from a reader's queue followed by what is on it is exactly the
\* other lines it has read, in the order read (a line that is not JSON
\* wrapped), followed by the sentinel once the reader is done.
C25_WaveformNeverQueued ==
    /\ [](\A k \in 1..rd_n :
            /\ \A i \in 1..Len(rd_queue[k]) : rd_queue[k][i].msg.type # "waveform"
            /\ Len(rd_calls[k]) = RdWaveformsRead(k)
            /\ RdTaken(rd_got, k) \o RdMsgs(rd_queue[k])
                 = RdExpected(RdLinesRead(k))
                     \o (IF rd_state[k] = "done" THEN <<EofMsg>> ELSE <<>>))
    /\ [](\A i \in 1..Len(rd_got) : rd_got[i].msg.type # "waveform")
    /\ [][\A k \in 1..rd_n :
            Len(rd_calls'[k]) > Len(rd_calls[k]) =>
              /\ rd_state'[k] = "reading"
              /\ rd_queue' = rd_queue
              /\ (rd_calls'[k][Len(rd_calls'[k])] = "dropped") = ~rd_cb]_vars

\* The callback raised on a waveform event, the reader went on to read the
\* response written after it, and the wait has taken that response.
C25_Witness ==
    \E k \in 1..rd_n :
        /\ rd_calls[k] = <<"raised">>
        /\ rd_pos[k] = 2
        /\ rd_state[k] = "reading"
        /\ rd_got # <<>>
        /\ rd_got[Len(rd_got)] = [src |-> k, msg |-> Msg("stopped", 1, 4, ""), for |-> k]

\* C26: every message the readiness wait or a command has taken from the
\* queue came from the stdout of the instance whose handle was held then,
\* and a queue holds only messages from the stdout of the instance it was
\* created for.
C26_NoMessageFromEarlierInstance ==
    /\ \A i \in 1..Len(rd_got) : rd_got[i].src = rd_got[i].for
    /\ \A k \in 1..rd_n : \A i \in 1..Len(rd_queue[k]) : rd_queue[k][i].src = k
    /\ rd_proc # NoProc => rd_messages = rd_proc

\* A second instance is held and a message of its own has been taken for
\* it, while the reader of the first instance, torn down, has put a message
\* on the first queue and has another line of the first stdout still to read.
C26_Witness ==
    /\ rd_proc = 2
    /\ ~rd_alive[1]
    /\ rd_state[1] = "reading"
    /\ rd_queue[1] # <<>>
    /\ rd_pos[1] < rd_written[1]
    /\ rd_got # <<>>
    /\ rd_got[Len(rd_got)].for = 2

\* ---------------------------------------------------- waveform claims, cont.
\* the bars of the partition into 24 segments of length L = max(1, N div 24)
\* in which what is left after 24 * L samples belongs to the last segment
FoldedBars(audio) ==
    LET N == Len(audio)
        L == Max2(1, N \div WAVEFORM_BARS)
    IN [b \in 1..WAVEFORM_BARS |->
          LET start == (b - 1) * L
              end == IF b = WAVEFORM_BARS THEN N ELSE Min2(N, start + L)
          IN IF start < N THEN Rms(SubSeq(audio, start + 1, end)) ELSE 0]

\* C27 as stated: the raw peak a tick reports is the largest bar of the
\* partition of its N pending samples into 24 segments of length
\* max(1, N div 24) with the remainder in the last one.
C27_AsStated ==
    [][cpc = "waveform" /\ since_waveform >= WAVEFORM_INTERVAL_MS =>
          last_event'[1].raw_peak
            = SeqMax(FoldedBars(AbsSeq(Concat(Append(waveform_buffer, indata)))))]_vars

\* Two sessions on a stream whose blocks are a waveform interval apart, the
\* first long enough to fill the rolling window: single-frame blocks, quiet
\* ones but for the first and the one that meets a full window.
PeakBlocks == {WaveBlock(1, 3), WaveBlock(1, 1000)}

PeakSession ==
    \/ ncalls \in {0, 2} /\ StartCall(None, 16000, 1, Unplugged)
    \/ StartInit
    \/ StartOpen
    \/ ncalls = 1 /\ CancelCall
    \/ CancelClear
    \/ CancelAbort

PeakCallback ==
    \/ \E c \in PeakBlocks :
          /\ delivered \notin {0, PEAK_WINDOW_SIZE} => c = WaveBlock(1, 3)
          /\ CbEnter(c, PEAK_WINDOW_SIZE + 2)
    \/ CbAppend
    \/ Advance
    \/ since_waveform >= WAVEFORM_INTERVAL_MS /\ CbWaveform

NextPeak ==
    \/ PeakSession
    \/ PeakCallback

SpecPeak == Init /\ [][NextPeak]_vars

\* C28: the peak history never holds more than PEAK_WINDOW_SIZE entries and
\* the peak level is never below the floor; a tick appends its raw peak to
\* the history, dropping the oldest entry if the window was full, and
\* leaves the pending buffer empty; the step that completes a start finds
\* the history empty, the peak level at its initial value and the pending
\* buffer empty.
C28_PeakHistoryBounded ==
    /\ [](Len(peak_history) <= PEAK_WINDOW_SIZE /\ peak_level >= PEAK_FLOOR)
    /\ [][(cpc = "waveform" /\ cpc' = "none" /\ since_waveform >= WAVEFORM_INTERVAL_MS) =>
            /\ peak_history' =
                 Append(IF Len(peak_history) = PEAK_WINDOW_SIZE
                        THEN Tail(peak_history) ELSE peak_history,
                        last_event'[1].raw_peak)
            /\ waveform_buffer' = <<>>]_vars
    /\ [][(stream = NoStream /\ stream' # NoStream) =>
            /\ peak_history' = <<>>
            /\ peak_level' = INITIAL_PEAK_LEVEL
            /\ waveform_buffer' = <<>>]_vars

\* The tick after the window filled has run: the loud first entry is gone
\* and the window holds the PEAK_WINDOW_SIZE quiet ones after it.
C28_Witness ==
    /\ delivered = PEAK_WINDOW_SIZE + 1
    /\ cpc = "none"
    /\ fed # <<>>
    /\ fed[1] = WaveBlock(1, 1000)
    /\ Len(peak_history) = PEAK_WINDOW_SIZE
    /\ SeqMax(peak_history) = 3
    /\ waveform_buffer = <<>>

\* ---------------------------------------------------- client claims, cont.
\* C29 as stated: when start_recording has received the worker's "Already
\* recording" error, the call ends with that error for its caller, and the
\* worker it was sent to is still there and still recording.
C29_AsStated ==
    [][\A t \in Callers :
          (/\ tpc[t] = "reply"
           /\ top[t] = "start_recording"
           /\ tmsg[t].type = "error"
           /\ tmsg[t].error = "Already recording"
           /\ tpc'[t] # "reply")
          => /\ tpc'[t] = "idle"
             /\ tresult'[t] = Error("Already recording")
             /\ proc' = proc
             /\ wrecording']_vars

\* ---------------------------------------------------- recorder claims, cont.
\* C30 as stated: between calls the recorder is Recording only with a stream
\* attached, so that a start which has raised, other than for a recording
\* in progress, has left it Idle.
C30_AsStated ==
    /\ rpc = "idle" /\ recording => stream # NoStream
    /\ (rpc = "idle" /\ ret.status = "error" /\ ret.op = "start"
          /\ ret.error # "Already recording") => ~recording

LkFrame ==
    UNCHANGED <<td, readervars, workervars, spawn_attempt, req_id, tmsg, skipped, proc, messages,
                next_id, procvars, ghostvars, tracevars>>

\* a call of a public operation (lines 43, 47, 51, 94, 124)
LkCall(t, op) ==
    /\ tpc[t] = "idle"
    /\ tpc' = [tpc EXCEPT ![t] = "lock"]
    /\ top' = [top EXCEPT ![t] = op]
    /\ tresult' = [tresult EXCEPT ![t] = NoResult]
    /\ UNCHANGED <<attempt, lock, write_lock>>
    /\ LkFrame

\* `with self._lock:` (lines 44, 48, 52, 95, 125)
LkEnter(t) ==
    /\ tpc[t] = "lock"
    /\ LockFree(lock)
    /\ lock' = t
    /\ tpc' = [tpc EXCEPT ![t] = "body"]
    /\ UNCHANGED <<top, attempt, tresult, write_lock>>
    /\ LkFrame

\* leaving `with self._lock:` by return or by an exception
LkLeave(t, res) ==
    /\ tpc' = [tpc EXCEPT ![t] = "idle"]
    /\ tresult' = [tresult EXCEPT ![t] = res]
    /\ attempt' = [attempt EXCEPT ![t] = 0]
    /\ lock' = NoHolder

\* an exception inside the lock: start_recording catches it once and runs its
\* loop again (lines 85-90), everything else lets it leave the `with`
LkRaise(t, err) ==
    IF top[t] = "start_recording" /\ attempt[t] = 0
    THEN /\ tpc' = [tpc EXCEPT ![t] = "body"]
         /\ attempt' = [attempt EXCEPT ![t] = 1]
         /\ UNCHANGED <<tresult, lock>>
    ELSE LkLeave(t, Error(err))

\* what an operation does before it writes: ensure_running and stop (lines
\* 45, 49) end here; cancel_recording may find no worker (lines 126-127);
\* _ensure_running_locked may raise (lines 56, 96)
LkBody(t, raises) ==
    /\ tpc[t] = "body"
    /\ CASE top[t] \in {"ensure_running", "stop"} ->
              LkLeave(t, IF raises THEN Error("Audio worker failed to start") ELSE Ok)
         [] top[t] = "cancel_recording" ->
              IF raises THEN LkLeave(t, Ok)
              ELSE /\ tpc' = [tpc EXCEPT ![t] = "wacquire"]
                   /\ UNCHANGED <<attempt, tresult, lock>>
         [] OTHER ->
              IF raises THEN LkRaise(t, "Audio worker failed to start")
              ELSE /\ tpc' = [tpc EXCEPT ![t] = "wacquire"]
                   /\ UNCHANGED <<attempt, tresult, lock>>
    /\ UNCHANGED <<top, write_lock>>
    /\ LkFrame

\* lines 69-70, 101-102, 132-133: self._write_lock.acquire(timeout=...)
\* takes the lock, or finds it held until the timeout and the call raises
LkWriteLock(t) ==
    /\ tpc[t] = "wacquire"
    /\ IF write_lock = NoHolder
       THEN /\ write_lock' = t
            /\ tpc' = [tpc EXCEPT ![t] = "write"]
            /\ UNCHANGED <<attempt, tresult, lock>>
       ELSE /\ write_lock' = write_lock
            /\ LkRaise(t, "Timed out waiting for audio worker write lock")
    /\ UNCHANGED top
    /\ LkFrame

\* lines 71-72, 103-104, 134-135: _write_line returns or raises
LkWrite(t, raises) ==
    /\ tpc[t] = "write"
    /\ tpc' = [tpc EXCEPT ![t] = IF raises THEN "release_raise" ELSE "release"]
    /\ UNCHANGED <<top, attempt, tresult, lock, write_lock>>
    /\ LkFrame

\* a release in an else clause instead of the finally
LkRelease_OnlyOnSuccess(t) ==
    /\ tpc[t] \in {"release", "release_raise"}
    /\ IF tpc[t] = "release_raise"
       THEN /\ write_lock' = write_lock
            /\ LkRaise(t, "Timed out writing to audio worker stdin")
       ELSE /\ write_lock' = NoHolder
            /\ tpc' = [tpc EXCEPT ![t] = "wait"]
            /\ UNCHANGED <<attempt, tresult, lock>>
    /\ UNCHANGED top
    /\ LkFrame

\* lines 73-74, 105-106, 136-137: finally: self._write_lock.release(), after
\* which the exception of the write goes on
LkRelease(t) ==
    /\ tpc[t] \in {"release", "release_raise"}
    /\ write_lock' = NoHolder
    /\ IF tpc[t] = "release_raise"
       THEN LkRaise(t, "Timed out writing to audio worker stdin")
       ELSE /\ tpc' = [tpc EXCEPT ![t] = "wait"]
            /\ UNCHANGED <<attempt, tresult, lock>>
    /\ UNCHANGED top
    /\ LkFrame

\* lines 76-84, 107-122, 138-146: the wait ends with the response or not
LkWait(t, raises) ==
    /\ tpc[t] = "wait"
    /\ IF raises THEN LkRaise(t, TimeoutMessage(top[t])) ELSE LkLeave(t, Ok)
    /\ UNCHANGED <<top, write_lock>>
    /\ LkFrame

NextLocks ==
    \E t \in Callers :
        \/ \E op \in Ops : LkCall(t, op)
        \/ LkEnter(t)
        \/ \E raises \in BOOLEAN : LkBody(t, raises)
        \/ LkWriteLock(t)
        \/ \E raises \in BOOLEAN : LkWrite(t, raises)
        \/ LkRelease(t)
        \/ \E raises \in BOOLEAN : LkWait(t, raises)

SpecLocks == Init /\ [][NextLocks]_vars

\* C32: the write lock is held only by the thread that holds the command
\* lock, and only while that thread writes; a thread that goes for the write
\* lock finds it free; no call ends with the write-lock timeout; the holder
\* of the command lock is never waiting for a lock.
C32_WriteLockNeverContended ==
    /\ write_lock # NoHolder =>
          (lock = write_lock /\ tpc[write_lock] \in {"write", "release", "release_raise"})
    /\ \A t \in Callers : tpc[t] = "wacquire" => (lock = t /\ write_lock = NoHolder)
    /\ \A t \in Callers : tresult[t].error # "Timed out waiting for audio worker write lock"
    /\ lock # NoHolder => tpc[lock] \notin {"idle", "lock"}

\* The write of a start_recording on its second attempt has raised with the
\* write lock held, while the other thread waits for the command lock.
C32_Witness ==
    /\ tpc[1] = "release_raise"
    /\ top[1] = "start_recording"
    /\ attempt[1] = 1
    /\ write_lock = 1
    /\ tpc[2] = "lock"

\* ---------------------------------------------------- protocol claims, cont.
\* C33 as stated: the step that reads a line which is JSON but not an object
\* writes no message, changes nothing in the recorder and leaves the
\* protocol loop running.
C33_AsStated ==
    [][(Len(seen') > Len(seen) /\ seen'[Len(seen')].type = "non-object") =>
          /\ out' = out
          /\ UNCHANGED <<recvars, envvars>>
          /\ mstatus' = "running"]_vars

\* ------------------------------------------------- stop requests end to end
\* The lines stop_recording and start_recording write, and the protocol loop
\* of a running worker reading them: stdin keeps every line written, the
\* loop reads the line after the ones it has seen.
PathFrame ==
    UNCHANGED <<td, readervars, workervars, threadvars, lock, write_lock, proc, messages, walive,
                wboot, wrecording, reader, queue, ghostvars, teardowns, ready_seen>>

\* what a caller may pass as wav_path
WavPaths == Paths \cup {"", None}

\* start_recording, lines 56-72: the start request is written
PathStartRecording ==
    /\ Len(stdin) < MaxLines
    /\ stdin' = Append(stdin, [type |-> "start", id |-> next_id, wav_path |-> None])
    /\ next_id' = NextId(next_id)
    /\ sent' = Append(sent, next_id)
    /\ PathFrame

\* stop_recording, lines 96-104: the id is taken, the request is built from
\* the argument as it is and written
PathStopRecording(wav_path) ==
    /\ Len(stdin) < MaxLines
    /\ stdin' = Append(stdin, [type |-> "stop", id |-> next_id, wav_path |-> wav_path])
    /\ next_id' = NextId(next_id)
    /\ sent' = Append(sent, next_id)
    /\ PathFrame

\* main, lines 198-230, for the next line written by the client
PathMainRead ==
    /\ Len(seen) < Len(stdin)
    /\ LET line == stdin[Len(seen) + 1]
       IN CASE line.type = "start" -> MainStart(None, 16000, 1, Unplugged)
            [] Truthy(line.wav_path) -> MainStop(line.wav_path)
            [] OTHER -> MainStopNoPath

PathWorker ==
    \/ PathMainRead
    \/ MainRespond
    \/ StartAlreadyRecording
    \/ StartInit
    \/ StartOpen
    \/ StopIdle
    \/ StopTake
    \/ StopWrite
    \/ CallbackStep
    \/ Advance

NextPath ==
    \/ PathStartRecording
    \/ \E p \in WavPaths : PathStopRecording(p)
    \/ PathWorker

SpecPath == Init /\ [][NextPath]_vars

\* C34 as stated: no stop request written by the client lacks a wav_path,
\* and the worker never answers "Missing wav_path".
C34_AsStated ==
    /\ \A i \in 1..Len(stdin) : stdin[i].type = "stop" => Truthy(stdin[i].wav_path)
    /\ \A i \in 1..Len(out) : out[i].error # "Missing wav_path"

====
